---- MODULE Spec2Model ----
(***************************************************************************)
(* Model of the Titan Forge trading agent: the risk bookkeeping            *)
(* (risk_management/risk_manager.py), the regime classifier and advisor    *)
(* (adaptability/adaptability_manager.py) and the signal generator         *)
(* (strategy/trading_strategy.py).                                         *)
(*                                                                         *)
(* Numbers.  The program computes with Python floats.  The model computes  *)
(* with exact rationals [num, den] (den > 0, lowest terms), so that        *)
(* products with a percentage, the quotient of the position size and the   *)
(* 0.98 / 1.02 trailing factors are computed rather than assumed; float    *)
(* rounding is not modelled.  None, NaN and a raised exception are tagged  *)
(* records, distinct from every rational.                                  *)
(***************************************************************************)
EXTENDS Integers, Sequences, FiniteSets, TLC

VARIABLES
    rm,                   \* the RiskManager instance (None before construction)
    lastOp,               \* the last call made: [name, args]
    ret,                  \* what that call returned (or the exception it raised)
    accepted_today,       \* history: sum of the loss amounts > 0 passed since construction / reset
    trailing_stop_level,  \* caller's current trailing stop, fed back into update_trailing_stop
    long_position,        \* caller's position side
    current_price,        \* the price given to the last update_trailing_stop call
    previous_price,       \* the price given to the call before that
    trail_calls,          \* number of update_trailing_stop calls made for this position
    frames,               \* the DataFrame objects the caller of generate_signal holds, by name
    agent,                \* st.session_state.agent: None or a TradingAgent
    agent_status,         \* st.session_state.agent_status
    session_account_balance, \* st.session_state.account_balance
    positions,            \* st.session_state.positions, one record per row
    logs,                 \* st.session_state.logs, newest first
    config,               \* TradingAgent.config (None while there is no agent)
    pc,                   \* where run_trading_loop stands
    cycle,                \* number of passes of the while loop started
    symbol_index,         \* index in config.symbols of the symbol the for loop is at
    now                   \* the clock, in seconds

vars == <<rm, lastOp, ret, accepted_today,
          trailing_stop_level, long_position, current_price, previous_price, trail_calls,
          frames, agent, agent_status, session_account_balance, positions, logs, config, pc, cycle, symbol_index, now>>

sessionVars == <<agent, agent_status, session_account_balance, positions, logs>>
loopVars    == <<config, pc, cycle, symbol_index, now>>

riskVars  == <<rm, lastOp, ret, accepted_today>>
trailVars == <<trailing_stop_level, long_position, current_price, previous_price, trail_calls>>

----------------------------------------------------------------------------
(* Bounds of the model *)

MaxBalance    == 3   \* construction balances range over -1 .. MaxBalance
PctDen        == 2   \* percentages range over -1/PctDen .. (PctDen+1)/PctDen
MaxLossAmount == 2   \* loss amounts range over -1 .. MaxLossAmount
MaxOverdraw   == 1   \* losses are explored until account_balance would pass -MaxOverdraw
MaxPrice      == 3   \* entry / stop prices range over -1 .. MaxPrice
MaxMultiplier == 1   \* asset multipliers range over -1 .. MaxMultiplier
MaxTrailPrice == 5   \* trailing prices and initial stops range over 1 .. MaxTrailPrice
MaxTrailCalls == 3   \* length of the price sequence fed to update_trailing_stop
MaxRatio      == 3   \* risk/reward ratios range over -1 .. MaxRatio
MaxVolatility == 3   \* volatility measures range over -1 .. MaxVolatility
MaxTargetPrice == 5  \* entry / stop prices of determine_take_profit range over -1 .. MaxTargetPrice
MaxExtraBars  == 2   \* bar series have up to pvg_long_period + MaxExtraBars bars
BasePrice     == 200 \* close of a flat bar series; trends move one unit per bar from it
TieOffset     == 2   \* the last two closes of a tie series are BasePrice +/- TieOffset
SwingOffset   == 60  \* how far a dipped low / spiked high leaves its bar's range
VolumeLevel   == 100 \* volume of every bar of an active series
MaxCycles     == 2   \* passes of the trading loop explored
PassSeconds   == 1   \* seconds a pass of the loop takes on top of its 60 sleeps
MaxExtraLogs  == 3   \* add_log calls explored beyond the length the log is cut to
MaxFramePrice == 2   \* largest price passed to a method between two state changes

----------------------------------------------------------------------------
(* Exact rational arithmetic standing for Python float arithmetic *)

Abs(x) == IF x < 0 THEN -x ELSE x

RECURSIVE GCD(_, _)
GCD(a, b) == IF b = 0 THEN a ELSE GCD(b, a % b)

Rat(n, d) ==
    LET s == IF d < 0 THEN -1 ELSE 1
        g == GCD(Abs(n), Abs(d))
    IN  [num |-> (s * n) \div g, den |-> (s * d) \div g]

IntRat(i) == [num |-> i, den |-> 1]
Zero == IntRat(0)
One  == IntRat(1)

RatAdd(a, b) == Rat(a.num * b.den + b.num * a.den, a.den * b.den)
RatSub(a, b) == Rat(a.num * b.den - b.num * a.den, a.den * b.den)
RatMul(a, b) == Rat(a.num * b.num, a.den * b.den)
RatDiv(a, b) == Rat(a.num * b.den, a.den * b.num)      \* b # Zero
RatAbs(a)    == [num |-> Abs(a.num), den |-> a.den]
RatLT(a, b)  == a.num * b.den < b.num * a.den
RatLE(a, b)  == a.num * b.den <= b.num * a.den
RatMax(a, b) == IF RatLT(a, b) THEN b ELSE a            \* Python max(a, b)
RatMin(a, b) == IF RatLT(b, a) THEN b ELSE a            \* Python min(a, b)

None == [kind |-> "None"]
NaN  == [kind |-> "NaN"]
Raise(exc) == [kind |-> "raise", exc |-> exc]
IsRat(v) == DOMAIN v = {"num", "den"}

----------------------------------------------------------------------------
(* RiskManager, method by method *)

\* __init__ without the account_balance check.
RiskManager_init_NoBalanceCheck(account_balance, risk_per_trade_percentage, daily_risk_limit_percentage) ==
    IF ~(RatLT(Zero, risk_per_trade_percentage) /\ RatLE(risk_per_trade_percentage, One))
    THEN Raise("ValueError")
    ELSE IF ~(RatLT(Zero, daily_risk_limit_percentage) /\ RatLE(daily_risk_limit_percentage, One))
    THEN Raise("ValueError")
    ELSE [account_balance             |-> account_balance,
          initial_balance             |-> account_balance,
          risk_per_trade_percentage   |-> risk_per_trade_percentage,
          daily_risk_limit_percentage |-> daily_risk_limit_percentage,
          daily_loss_incurred         |-> Zero]

\* __init__: validation, then the five fields.
RiskManager_init(account_balance, risk_per_trade_percentage, daily_risk_limit_percentage) ==
    IF ~(RatLT(Zero, risk_per_trade_percentage) /\ RatLE(risk_per_trade_percentage, One))
    THEN Raise("ValueError")
    ELSE IF ~(RatLT(Zero, daily_risk_limit_percentage) /\ RatLE(daily_risk_limit_percentage, One))
    THEN Raise("ValueError")
    ELSE IF RatLE(account_balance, Zero)
    THEN Raise("ValueError")
    ELSE [account_balance             |-> account_balance,
          initial_balance             |-> account_balance,
          risk_per_trade_percentage   |-> risk_per_trade_percentage,
          daily_risk_limit_percentage |-> daily_risk_limit_percentage,
          daily_loss_incurred         |-> Zero]

IsInstance(v) == "account_balance" \in DOMAIN v

\* calculate_position_size with the signed distance entry - stop.
calculate_position_size_NoAbs(self, entry_price, stop_loss_price, asset_multiplier) ==
    IF RatLE(stop_loss_price, Zero) \/ RatLE(entry_price, Zero)
    THEN Zero
    ELSE LET risk_per_trade_dollars == RatMul(self.account_balance, self.risk_per_trade_percentage)
             price_difference       == RatSub(entry_price, stop_loss_price)
         IN  IF price_difference = Zero
             THEN Zero
             ELSE IF RatMul(price_difference, asset_multiplier) = Zero
             THEN Raise("ZeroDivisionError")
             ELSE RatDiv(risk_per_trade_dollars, RatMul(price_difference, asset_multiplier))

\* calculate_position_size: 0.0 on a non-positive price or a zero distance,
\* otherwise risk dollars / (distance * multiplier); a float division by a
\* zero product raises ZeroDivisionError.
calculate_position_size(self, entry_price, stop_loss_price, asset_multiplier) ==
    IF RatLE(stop_loss_price, Zero) \/ RatLE(entry_price, Zero)
    THEN Zero
    ELSE LET risk_per_trade_dollars == RatMul(self.account_balance, self.risk_per_trade_percentage)
             price_difference       == RatAbs(RatSub(entry_price, stop_loss_price))
         IN  IF price_difference = Zero
             THEN Zero
             ELSE IF RatMul(price_difference, asset_multiplier) = Zero
             THEN Raise("ZeroDivisionError")
             ELSE RatDiv(risk_per_trade_dollars, RatMul(price_difference, asset_multiplier))

StopLossVolatilityMultiple == Rat(3, 2)      \* volatility * 1.5
StopLossFallbackFactor     == Rat(95, 100)   \* entry_price * 0.95
TakeProfitFallbackFactor   == Rat(5, 100)    \* entry_price * 0.05

\* determine_stop_loss accepting a distance of 100% (0 < pct <= 1).
determine_stop_loss_PctInclusive(self, entry_price, stop_loss_distance_percentage, volatility) ==
    IF RatLE(entry_price, Zero)
    THEN NaN
    ELSE IF stop_loss_distance_percentage # None
    THEN IF ~(RatLT(Zero, stop_loss_distance_percentage) /\ RatLE(stop_loss_distance_percentage, One))
         THEN NaN
         ELSE RatMul(entry_price, RatSub(One, stop_loss_distance_percentage))
    ELSE IF volatility # None
    THEN LET stop_loss_price == RatSub(entry_price, RatMul(volatility, StopLossVolatilityMultiple))
         IN  IF RatLE(stop_loss_price, Zero)
             THEN RatMul(entry_price, StopLossFallbackFactor)
             ELSE stop_loss_price
    ELSE NaN

\* determine_stop_loss: the percentage path is tried first, then the
\* volatility path with its fallback; NaN when neither applies.
determine_stop_loss(self, entry_price, stop_loss_distance_percentage, volatility) ==
    IF RatLE(entry_price, Zero)
    THEN NaN
    ELSE IF stop_loss_distance_percentage # None
    THEN IF ~(RatLT(Zero, stop_loss_distance_percentage) /\ RatLT(stop_loss_distance_percentage, One))
         THEN NaN
         ELSE RatMul(entry_price, RatSub(One, stop_loss_distance_percentage))
    ELSE IF volatility # None
    THEN LET stop_loss_price == RatSub(entry_price, RatMul(volatility, StopLossVolatilityMultiple))
         IN  IF RatLE(stop_loss_price, Zero)
             THEN RatMul(entry_price, StopLossFallbackFactor)
             ELSE stop_loss_price
    ELSE NaN

\* determine_take_profit without the risk_reward_ratio check.
determine_take_profit_NoRatioCheck(self, entry_price, stop_loss_price, risk_reward_ratio) ==
    IF RatLE(entry_price, Zero) \/ RatLE(stop_loss_price, Zero)
    THEN NaN
    ELSE LET price_difference     == RatAbs(RatSub(entry_price, stop_loss_price))
             take_profit_distance == RatMul(price_difference, risk_reward_ratio)
         IN  IF RatLT(stop_loss_price, entry_price)
             THEN RatAdd(entry_price, take_profit_distance)
             ELSE IF RatLT(entry_price, stop_loss_price)
             THEN LET take_profit_price == RatSub(entry_price, take_profit_distance)
                  IN  IF RatLT(take_profit_price, Zero)
                      THEN RatMul(entry_price, TakeProfitFallbackFactor)
                      ELSE take_profit_price
             ELSE NaN

\* determine_take_profit adding the distance on the short side too.
determine_take_profit_ShortAdds(self, entry_price, stop_loss_price, risk_reward_ratio) ==
    IF RatLE(entry_price, Zero) \/ RatLE(stop_loss_price, Zero) \/ RatLE(risk_reward_ratio, Zero)
    THEN NaN
    ELSE LET price_difference     == RatAbs(RatSub(entry_price, stop_loss_price))
             take_profit_distance == RatMul(price_difference, risk_reward_ratio)
         IN  IF RatLT(stop_loss_price, entry_price)
             THEN RatAdd(entry_price, take_profit_distance)
             ELSE IF RatLT(entry_price, stop_loss_price)
             THEN LET take_profit_price == RatAdd(entry_price, take_profit_distance)
                  IN  IF RatLT(take_profit_price, Zero)
                      THEN RatMul(entry_price, TakeProfitFallbackFactor)
                      ELSE take_profit_price
             ELSE NaN

\* determine_take_profit: entry plus the reward distance for a long, entry
\* minus it for a short, where a result below zero (take_profit_price < 0)
\* is replaced by entry_price * 0.05; NaN on a non-positive input or a zero
\* distance.
determine_take_profit(self, entry_price, stop_loss_price, risk_reward_ratio) ==
    IF RatLE(entry_price, Zero) \/ RatLE(stop_loss_price, Zero) \/ RatLE(risk_reward_ratio, Zero)
    THEN NaN
    ELSE LET price_difference     == RatAbs(RatSub(entry_price, stop_loss_price))
             take_profit_distance == RatMul(price_difference, risk_reward_ratio)
         IN  IF RatLT(stop_loss_price, entry_price)
             THEN RatAdd(entry_price, take_profit_distance)
             ELSE IF RatLT(entry_price, stop_loss_price)
             THEN LET take_profit_price == RatSub(entry_price, take_profit_distance)
                  IN  IF RatLT(take_profit_price, Zero)
                      THEN RatMul(entry_price, TakeProfitFallbackFactor)
                      ELSE take_profit_price
             ELSE NaN

TrailLongFactor  == Rat(98, 100)    \* current_price * 0.98
TrailShortFactor == Rat(102, 100)   \* current_price * 1.02

\* update_trailing_stop with min in place of max on the long side.
update_trailing_stop_LongMin(price, level, is_long) ==
    IF is_long
    THEN LET new_trailing_stop == RatMin(level, RatMul(price, TrailLongFactor))
         IN  IF RatLT(level, new_trailing_stop) THEN new_trailing_stop ELSE level
    ELSE LET new_trailing_stop == RatMin(level, RatMul(price, TrailShortFactor))
         IN  IF RatLT(new_trailing_stop, level) THEN new_trailing_stop ELSE level

\* update_trailing_stop returning the candidate price * 0.98 whenever it
\* differs from the level, looser or tighter.
update_trailing_stop_NoRatchet(price, level, is_long) ==
    IF is_long
    THEN LET new_trailing_stop == RatMul(price, TrailLongFactor)
         IN  IF new_trailing_stop # level THEN new_trailing_stop ELSE level
    ELSE LET new_trailing_stop == RatMin(level, RatMul(price, TrailShortFactor))
         IN  IF RatLT(new_trailing_stop, level) THEN new_trailing_stop ELSE level

\* update_trailing_stop: the candidate stop is returned only when it is
\* strictly tighter than the level passed in; otherwise the level is returned.
update_trailing_stop(price, level, is_long) ==
    IF is_long
    THEN LET new_trailing_stop == RatMax(level, RatMul(price, TrailLongFactor))
         IN  IF RatLT(level, new_trailing_stop) THEN new_trailing_stop ELSE level
    ELSE LET new_trailing_stop == RatMin(level, RatMul(price, TrailShortFactor))
         IN  IF RatLT(new_trailing_stop, level) THEN new_trailing_stop ELSE level

\* check_daily_risk_limit with > in place of >=.
check_daily_risk_limit_Strict(self) ==
    LET daily_risk_limit_dollars == RatMul(self.initial_balance, self.daily_risk_limit_percentage)
    IN  IF RatLT(daily_risk_limit_dollars, self.daily_loss_incurred)
        THEN FALSE
        ELSE TRUE

\* check_daily_risk_limit: False once the loss has reached the limit.
check_daily_risk_limit(self) ==
    LET daily_risk_limit_dollars == RatMul(self.initial_balance, self.daily_risk_limit_percentage)
    IN  IF RatLE(daily_risk_limit_dollars, self.daily_loss_incurred)
        THEN FALSE
        ELSE TRUE

\* update_daily_loss booking every amount, whatever its sign.
update_daily_loss_NoSignCheck(self, loss_amount) ==
    [self EXCEPT !.daily_loss_incurred = RatAdd(self.daily_loss_incurred, loss_amount),
                 !.account_balance     = RatSub(self.account_balance, loss_amount)]

\* update_daily_loss booking a positive amount on the loss counter only.
update_daily_loss_NoBalance(self, loss_amount) ==
    IF RatLT(Zero, loss_amount)
    THEN [self EXCEPT !.daily_loss_incurred = RatAdd(self.daily_loss_incurred, loss_amount)]
    ELSE self

\* update_daily_loss accepting zero and positive amounts and booking the
\* magnitude of a negative one.
update_daily_loss_AbsAmount(self, loss_amount) ==
    [self EXCEPT !.daily_loss_incurred = RatAdd(self.daily_loss_incurred, RatAbs(loss_amount)),
                 !.account_balance     = RatSub(self.account_balance, RatAbs(loss_amount))]

\* update_daily_loss: a positive amount is booked on both counters; a
\* negative one is only logged; zero falls through both branches.
update_daily_loss(self, loss_amount) ==
    IF RatLT(Zero, loss_amount)
    THEN [self EXCEPT !.daily_loss_incurred = RatAdd(self.daily_loss_incurred, loss_amount),
                      !.account_balance     = RatSub(self.account_balance, loss_amount)]
    ELSE IF RatLT(loss_amount, Zero)
    THEN self
    ELSE self

\* reset_daily_loss that clears the counter but keeps the old reference balance.
reset_daily_loss_KeepInitial(self) ==
    [self EXCEPT !.daily_loss_incurred = Zero]

\* reset_daily_loss: the counter goes to 0.0 and the day's reference balance
\* is re-read from the current balance.
reset_daily_loss(self) ==
    [self EXCEPT !.daily_loss_incurred = Zero,
                 !.initial_balance     = self.account_balance]

----------------------------------------------------------------------------
(* AdaptabilityManager *)

\* dict.get(key, default)
Get(d, key, default) == IF key \in DOMAIN d THEN d[key] ELSE default

\* __init__: the two thresholds.
AdaptabilityManager_init(volatility_threshold, trend_strength_threshold) ==
    [volatility_threshold     |-> volatility_threshold,
     trend_strength_threshold |-> trend_strength_threshold]

\* AdaptabilityManager(): volatility_threshold=0.02, trend_strength_threshold=20.
DefaultAdaptabilityManager == AdaptabilityManager_init(Rat(2, 100), IntRat(20))

\* The regime chain of analyze_market_conditions whose second arm tests
\* 'ranging' again, so that (trending, low) falls through to the else arm.
RegimeOf_SecondArmWrong(trend, volatility) ==
    IF trend = "trending" /\ volatility = "high" THEN "TRENDING_HIGH_VOL"
    ELSE IF trend = "ranging" /\ volatility = "low" THEN "TRENDING_LOW_VOL"
    ELSE IF trend = "ranging" /\ volatility = "high" THEN "RANGING_HIGH_VOL"
    ELSE IF trend = "ranging" /\ volatility = "low" THEN "RANGING_LOW_VOL"
    ELSE "UNCERTAIN"

\* The if / elif chain that derives market_conditions['regime'].
RegimeOf(trend, volatility) ==
    IF trend = "trending" /\ volatility = "high" THEN "TRENDING_HIGH_VOL"
    ELSE IF trend = "trending" /\ volatility = "low" THEN "TRENDING_LOW_VOL"
    ELSE IF trend = "ranging" /\ volatility = "high" THEN "RANGING_HIGH_VOL"
    ELSE IF trend = "ranging" /\ volatility = "low" THEN "RANGING_LOW_VOL"
    ELSE "UNCERTAIN"

\* The body of the try block.  The bar data is described by what the code
\* reads of it: whether it is empty, its columns, the latest close, and what
\* the indicator library yields for the latest bar (a value, NaN, or an
\* exception raised while computing ATR or ADX).
AnalyzeTryBody(self, data) ==
    IF data.fails = "atr"
    THEN Raise("Exception")
    ELSE LET latest_atr   == data.atr
             latest_close == data.close
             volatility   ==
                 IF latest_atr # NaN /\ latest_close # NaN /\ latest_close # Zero
                 THEN IF RatLT(self.volatility_threshold, RatDiv(latest_atr, latest_close))
                      THEN "high" ELSE "low"
                 ELSE "unknown"
         IN  IF data.fails = "adx"
             THEN Raise("Exception")
             ELSE LET latest_adx == data.adx
                      trend      ==
                          IF latest_adx # NaN
                          THEN IF RatLT(self.trend_strength_threshold, latest_adx)
                               THEN "trending" ELSE "ranging"
                          ELSE "unknown"
                  IN  [volatility |-> volatility,
                       trend      |-> trend,
                       regime     |-> RegimeOf(trend, volatility)]

RequiredCols == {"high", "low", "close"}

\* analyze_market_conditions with the try block left unguarded.
analyze_market_conditions_NoExcept(self, data) ==
    IF data.empty
    THEN [regime |-> "UNKNOWN"]
    ELSE IF ~(RequiredCols \subseteq data.columns)
    THEN [regime |-> "UNKNOWN"]
    ELSE AnalyzeTryBody(self, data)

\* analyze_market_conditions: the two structural checks, then the try block
\* with its except arm.
analyze_market_conditions(self, data) ==
    IF data.empty
    THEN [regime |-> "UNKNOWN"]
    ELSE IF ~(RequiredCols \subseteq data.columns)
    THEN [regime |-> "UNKNOWN"]
    ELSE LET market_conditions == AnalyzeTryBody(self, data)
         IN  IF market_conditions = Raise("Exception")
             THEN [regime |-> "UNKNOWN", volatility |-> "unknown", trend |-> "unknown"]
             ELSE market_conditions

\* The regime arms of suggest_strategy_adjustment.
RegimeAdjustments(current_regime) ==
    IF current_regime = "TRENDING_HIGH_VOL"
    THEN [strategy_type             |-> "trend_following",
          risk_per_trade_multiplier |-> Rat(8, 10),
          stop_loss_multiplier      |-> Rat(15, 10),
          take_profit_multiplier    |-> Rat(20, 10)]
    ELSE IF current_regime = "TRENDING_LOW_VOL"
    THEN [strategy_type             |-> "trend_following",
          risk_per_trade_multiplier |-> Rat(10, 10),
          stop_loss_multiplier      |-> Rat(10, 10),
          take_profit_multiplier    |-> Rat(15, 10)]
    ELSE IF current_regime = "RANGING_HIGH_VOL"
    THEN [strategy_type             |-> "range_bound",
          risk_per_trade_multiplier |-> Rat(6, 10),
          stop_loss_multiplier      |-> Rat(18, 10),
          take_profit_multiplier    |-> Rat(12, 10)]
    ELSE IF current_regime = "RANGING_LOW_VOL"
    THEN [strategy_type             |-> "range_bound",
          risk_per_trade_multiplier |-> Rat(10, 10),
          stop_loss_multiplier      |-> Rat(10, 10),
          take_profit_multiplier    |-> Rat(10, 10)]
    ELSE [strategy_type             |-> "hold",
          risk_per_trade_multiplier |-> Rat(5, 10),
          stop_loss_multiplier      |-> Rat(10, 10),
          take_profit_multiplier    |-> Rat(10, 10)]

\* suggest_strategy_adjustment scaling risk_per_trade_multiplier in place of
\* stop_loss_multiplier.
suggest_strategy_adjustment_ScalesRisk(self, market_conditions) ==
    LET current_regime        == Get(market_conditions, "regime", "UNKNOWN")
        volatility_level      == Get(market_conditions, "volatility", "unknown")
        suggested_adjustments == RegimeAdjustments(current_regime)
    IN  IF volatility_level = "high" /\ "stop_loss_multiplier" \in DOMAIN suggested_adjustments
        THEN [suggested_adjustments EXCEPT !.risk_per_trade_multiplier = RatMul(@, Rat(12, 10))]
        ELSE IF volatility_level = "low" /\ "stop_loss_multiplier" \in DOMAIN suggested_adjustments
        THEN [suggested_adjustments EXCEPT !.risk_per_trade_multiplier = RatMul(@, Rat(8, 10))]
        ELSE suggested_adjustments

\* suggest_strategy_adjustment with the two volatility factors exchanged.
suggest_strategy_adjustment_FactorsSwapped(self, market_conditions) ==
    LET current_regime        == Get(market_conditions, "regime", "UNKNOWN")
        volatility_level      == Get(market_conditions, "volatility", "unknown")
        suggested_adjustments == RegimeAdjustments(current_regime)
    IN  IF volatility_level = "high" /\ "stop_loss_multiplier" \in DOMAIN suggested_adjustments
        THEN [suggested_adjustments EXCEPT !.stop_loss_multiplier = RatMul(@, Rat(8, 10))]
        ELSE IF volatility_level = "low" /\ "stop_loss_multiplier" \in DOMAIN suggested_adjustments
        THEN [suggested_adjustments EXCEPT !.stop_loss_multiplier = RatMul(@, Rat(12, 10))]
        ELSE suggested_adjustments

\* suggest_strategy_adjustment: the regime's entry, then stop_loss_multiplier
\* *= 1.2 for volatility 'high' and *= 0.8 for 'low'.
suggest_strategy_adjustment(self, market_conditions) ==
    LET current_regime        == Get(market_conditions, "regime", "UNKNOWN")
        volatility_level      == Get(market_conditions, "volatility", "unknown")
        suggested_adjustments == RegimeAdjustments(current_regime)
    IN  IF volatility_level = "high" /\ "stop_loss_multiplier" \in DOMAIN suggested_adjustments
        THEN [suggested_adjustments EXCEPT !.stop_loss_multiplier = RatMul(@, Rat(12, 10))]
        ELSE IF volatility_level = "low" /\ "stop_loss_multiplier" \in DOMAIN suggested_adjustments
        THEN [suggested_adjustments EXCEPT !.stop_loss_multiplier = RatMul(@, Rat(8, 10))]
        ELSE suggested_adjustments

----------------------------------------------------------------------------
(* CombinedStrategy (strategy/trading_strategy.py)                         *)
(*                                                                         *)
(* A DataFrame is [len, cols]: the number of rows and, for each column     *)
(* name, the sequence of its values (rationals or NaN).                    *)

CombinedStrategy_init ==
    [pvg_short_period  |-> 14,
     pvg_long_period   |-> 50,
     smc_lookback      |-> 20,
     tpr_volume_period |-> 20]

\* DataFrame.empty: no rows or no columns.
Empty(data) == data.len = 0 \/ DOMAIN data.cols = {}

\* data[name] = column
SetColumn(data, name, column) == [data EXCEPT !.cols = (name :> column) @@ data.cols]

HasNaN(series, lo, hi) == \E k \in lo .. hi : series[k] = NaN

RECURSIVE SumWindow(_, _, _)
SumWindow(series, lo, hi) ==
    IF lo > hi THEN Zero
    ELSE IF lo = hi THEN series[lo]
    ELSE LET mid == (lo + hi) \div 2
         IN  RatAdd(SumWindow(series, lo, mid), SumWindow(series, mid + 1, hi))

\* ta.trend.sma_indicator(series, window) is
\* series.rolling(window, min_periods=window).mean(): undefined on the first
\* window - 1 rows and wherever the window holds a NaN.
sma_indicator(series, window) ==
    [i \in 1 .. Len(series) |->
        IF i < window \/ HasNaN(series, i - window + 1, i) THEN NaN
        ELSE RatDiv(SumWindow(series, i - window + 1, i), IntRat(window))]

\* series.rolling(window).max() / .min(), with the same definedness.
rolling_max(series, window) ==
    [i \in 1 .. Len(series) |->
        IF i < window \/ HasNaN(series, i - window + 1, i) THEN NaN
        ELSE LET w == {series[k] : k \in i - window + 1 .. i}
             IN  CHOOSE x \in w : \A y \in w : RatLE(y, x)]

rolling_min(series, window) ==
    [i \in 1 .. Len(series) |->
        IF i < window \/ HasNaN(series, i - window + 1, i) THEN NaN
        ELSE LET w == {series[k] : k \in i - window + 1 .. i}
             IN  CHOOSE x \in w : \A y \in w : RatLE(x, y)]

\* (rolling == series).astype(int): NaN equals nothing, so the flag is 0
\* where the rolling extremum is undefined.
EqualsAsInt(rolling, series) ==
    [i \in 1 .. Len(series) |->
        IF rolling[i] # NaN /\ rolling[i] = series[i] THEN One ELSE Zero]

analyze_pvg(self, data) ==
    IF "close" \in DOMAIN data.cols
    THEN SetColumn(SetColumn(data, "PVG_SMA_Short",
                             sma_indicator(data.cols["close"], self.pvg_short_period)),
                   "PVG_SMA_Long", sma_indicator(data.cols["close"], self.pvg_long_period))
    ELSE data

analyze_smc(self, data) ==
    IF "high" \in DOMAIN data.cols /\ "low" \in DOMAIN data.cols
    THEN SetColumn(SetColumn(data, "SMC_Swing_High",
                             EqualsAsInt(rolling_max(data.cols["high"], self.smc_lookback),
                                         data.cols["high"])),
                   "SMC_Swing_Low",
                   EqualsAsInt(rolling_min(data.cols["low"], self.smc_lookback),
                               data.cols["low"]))
    ELSE data

analyze_tpr(self, data) ==
    IF "volume" \in DOMAIN data.cols
    THEN SetColumn(data, "TPR_Volume_SMA",
                   sma_indicator(data.cols["volume"], self.tpr_volume_period))
    ELSE SetColumn(data, "TPR_Volume_SMA", [i \in 1 .. data.len |-> NaN])

\* DataFrame.dropna(): the rows without a NaN in any column, in order.
dropna(data) ==
    LET complete(i) == \A c \in DOMAIN data.cols : data.cols[c][i] # NaN
        kept        == SelectSeq([i \in 1 .. data.len |-> i], complete)
    IN  [len  |-> Len(kept),
         cols |-> [c \in DOMAIN data.cols |-> [k \in 1 .. Len(kept) |-> data.cols[c][kept[k]]]]]

\* DataFrame.iloc[i]: row i as a Series indexed by column name.
iloc(data, i) == [c \in DOMAIN data.cols |-> data.cols[c][i]]

\* The analyses run on data.copy(), which the model's values are anyway.
ProcessedData(self, data) ==
    dropna(analyze_tpr(self, analyze_smc(self, analyze_pvg(self, data))))

\* Signal without the swing conditions.
Signal_NoSwing(self, latest_data) ==
    LET buy_condition_pvg == RatLT(Get(latest_data, "PVG_SMA_Long", IntRat(-1)),
                                   Get(latest_data, "PVG_SMA_Short", IntRat(-1)))
        buy_condition_smc == TRUE
        buy_condition_tpr == /\ RatLT(Get(latest_data, "PVG_SMA_Long", Zero),
                                      Get(latest_data, "close", Zero))
                             /\ RatLT(Zero, Get(latest_data, "TPR_Volume_SMA", Zero))
        sell_condition_pvg == RatLT(Get(latest_data, "PVG_SMA_Short", One),
                                    Get(latest_data, "PVG_SMA_Long", One))
        sell_condition_smc == TRUE
        sell_condition_tpr == /\ RatLT(Get(latest_data, "close", Zero),
                                       Get(latest_data, "PVG_SMA_Long", Zero))
                              /\ RatLT(Zero, Get(latest_data, "TPR_Volume_SMA", Zero))
    IN  IF buy_condition_pvg /\ buy_condition_smc /\ buy_condition_tpr THEN "BUY"
        ELSE IF sell_condition_pvg /\ sell_condition_smc /\ sell_condition_tpr THEN "SELL"
        ELSE "HOLD"

\* Signal with a short SMA equal to the long one counting for BUY.
Signal_TieBuys(self, latest_data) ==
    LET buy_condition_pvg == RatLE(Get(latest_data, "PVG_SMA_Long", IntRat(-1)),
                                   Get(latest_data, "PVG_SMA_Short", IntRat(-1)))
        buy_condition_smc == Get(latest_data, "SMC_Swing_Low", Zero) = One
        buy_condition_tpr == /\ RatLT(Get(latest_data, "PVG_SMA_Long", Zero),
                                      Get(latest_data, "close", Zero))
                             /\ RatLT(Zero, Get(latest_data, "TPR_Volume_SMA", Zero))
        sell_condition_pvg == RatLT(Get(latest_data, "PVG_SMA_Short", One),
                                    Get(latest_data, "PVG_SMA_Long", One))
        sell_condition_smc == Get(latest_data, "SMC_Swing_High", Zero) = One
        sell_condition_tpr == /\ RatLT(Get(latest_data, "close", Zero),
                                       Get(latest_data, "PVG_SMA_Long", Zero))
                              /\ RatLT(Zero, Get(latest_data, "TPR_Volume_SMA", Zero))
    IN  IF buy_condition_pvg /\ buy_condition_smc /\ buy_condition_tpr THEN "BUY"
        ELSE IF sell_condition_pvg /\ sell_condition_smc /\ sell_condition_tpr THEN "SELL"
        ELSE "HOLD"

\* The gate of generate_signal on the latest retained row (lines 137-150).
Signal(self, latest_data) ==
    LET buy_condition_pvg == RatLT(Get(latest_data, "PVG_SMA_Long", IntRat(-1)),
                                   Get(latest_data, "PVG_SMA_Short", IntRat(-1)))
        buy_condition_smc == Get(latest_data, "SMC_Swing_Low", Zero) = One
        buy_condition_tpr == /\ RatLT(Get(latest_data, "PVG_SMA_Long", Zero),
                                      Get(latest_data, "close", Zero))
                             /\ RatLT(Zero, Get(latest_data, "TPR_Volume_SMA", Zero))
        sell_condition_pvg == RatLT(Get(latest_data, "PVG_SMA_Short", One),
                                    Get(latest_data, "PVG_SMA_Long", One))
        sell_condition_smc == Get(latest_data, "SMC_Swing_High", Zero) = One
        sell_condition_tpr == /\ RatLT(Get(latest_data, "close", Zero),
                                       Get(latest_data, "PVG_SMA_Long", Zero))
                              /\ RatLT(Zero, Get(latest_data, "TPR_Volume_SMA", Zero))
    IN  IF buy_condition_pvg /\ buy_condition_smc /\ buy_condition_tpr THEN "BUY"
        ELSE IF sell_condition_pvg /\ sell_condition_smc /\ sell_condition_tpr THEN "SELL"
        ELSE "HOLD"

generate_signal(self, data) ==
    IF Empty(data) THEN "HOLD"
    ELSE LET processed_data == ProcessedData(self, data)
         IN  IF Empty(processed_data) THEN "HOLD"
             ELSE Signal(self, iloc(processed_data, processed_data.len))

\* The DataFrame objects during a call of generate_signal, by name.
\* data.copy() makes a new object; the three analyses assign columns to the
\* object they are given and return that object; dropna(inplace=True)
\* rewrites its object.  The value is the store as the call leaves it.

\* generate_signal working on the caller's object instead of a copy.
generate_signal_objects_NoCopy(self, objects, data) ==
    IF Empty(objects[data]) THEN objects
    ELSE LET processed_data == data
             copied   == objects
             analysed == [copied EXCEPT ![processed_data] =
                             analyze_tpr(self, analyze_smc(self, analyze_pvg(self, @)))]
         IN  [analysed EXCEPT ![processed_data] = dropna(@)]

generate_signal_objects(self, objects, data) ==
    IF Empty(objects[data]) THEN objects
    ELSE LET processed_data == "processed_data"
             copied   == (processed_data :> objects[data]) @@ objects
             analysed == [copied EXCEPT ![processed_data] =
                             analyze_tpr(self, analyze_smc(self, analyze_pvg(self, @)))]
         IN  [analysed EXCEPT ![processed_data] = dropna(@)]

----------------------------------------------------------------------------
(* The dashboard (streamlit_app.py) *)

\* add_log dropping the line it has just inserted.
add_log_DropsNewest(log, timestamp, message) ==
    LET inserted == <<[timestamp |-> timestamp, message |-> message]>> \o log
    IN  IF Len(inserted) > 100 THEN SubSeq(inserted, 2, Len(inserted)) ELSE inserted

\* add_log(message) at clock reading timestamp: the line goes in front and
\* the last line is dropped once there are more than 100.
add_log(log, timestamp, message) ==
    LET inserted == <<[timestamp |-> timestamp, message |-> message]>> \o log
    IN  IF Len(inserted) > 100 THEN SubSeq(inserted, 1, Len(inserted) - 1) ELSE inserted

\* x * factor in floats: NaN stays NaN.
FloatMul(x, factor) == IF x = NaN THEN NaN ELSE RatMul(x, factor)

\* x > 0 in floats: False for NaN.
IsPositive(x) == x # NaN /\ RatLT(Zero, x)

RECURSIVE add_log_times(_, _, _, _)
add_log_times(log, timestamp, message, n) ==
    IF n = 0 THEN log ELSE add_log_times(add_log(log, timestamp, message), timestamp, message, n - 1)

\* The text of a line the loop logs is not told apart: only that a line is written.
Line == "line"

\* TradingAgent.__init__: the broker integration, then the RiskManager.
TradingAgent_init(cfg) ==
    IF cfg.broker # "Alpaca" THEN Raise("ValueError")
    ELSE LET risk_manager == RiskManager_init(cfg.initial_balance,
                                              RatDiv(cfg.risk_per_trade, IntRat(100)),
                                              Rat(5, 100))
         IN  IF IsInstance(risk_manager)
             THEN [config |-> cfg, strategy |-> CombinedStrategy_init, risk_manager |-> risk_manager]
             ELSE risk_manager

\* Trade with the stop of a SELL on the side of a BUY's.
Trade_SellStopBelow(risk_manager, cfg, signal, historical_data) ==
    LET entry_price       == historical_data.cols["close"][historical_data.len]
        stop_loss_price   == FloatMul(entry_price, Rat(98, 100))
        position_size     == IF entry_price = NaN THEN NaN
                             ELSE calculate_position_size(risk_manager, entry_price,
                                                          stop_loss_price, One)
        take_profit_price == IF entry_price = NaN THEN NaN
                             ELSE determine_take_profit(risk_manager, entry_price,
                                                        stop_loss_price, cfg.risk_reward_ratio)
    IN  [entry_price |-> entry_price, stop_loss_price |-> stop_loss_price,
         position_size |-> position_size, take_profit_price |-> take_profit_price]

\* Lines 106-111: the trade the loop derives from a BUY or SELL signal.  A
\* NaN close gives a NaN stop, and the two RiskManager calls return NaN on
\* NaN prices (every comparison with NaN is False, every difference NaN).
Trade(risk_manager, cfg, signal, historical_data) ==
    LET entry_price       == historical_data.cols["close"][historical_data.len]
        stop_loss_price   == FloatMul(entry_price, IF signal = "BUY" THEN Rat(98, 100)
                                                   ELSE Rat(102, 100))
        position_size     == IF entry_price = NaN THEN NaN
                             ELSE calculate_position_size(risk_manager, entry_price,
                                                          stop_loss_price, One)
        take_profit_price == IF entry_price = NaN THEN NaN
                             ELSE determine_take_profit(risk_manager, entry_price,
                                                        stop_loss_price, cfg.risk_reward_ratio)
    IN  [entry_price |-> entry_price, stop_loss_price |-> stop_loss_price,
         position_size |-> position_size, take_profit_price |-> take_profit_price]

\* Decision without the daily limit gate.
Decision_NoGate(risk_manager, cfg, fetched, signal) ==
    IF fetched = Raise("Exception") THEN "fetch_failed"
    ELSE IF Empty(fetched) THEN "no_data"
    ELSE IF signal \notin {"BUY", "SELL"} THEN "hold"
    ELSE IF "close" \notin DOMAIN fetched.cols THEN "error"
    ELSE IF IsPositive(Trade(risk_manager, cfg, signal, fetched).position_size) THEN "executed"
    ELSE "not_sized"

\* Decision with a failed fetch ending the loop the way the gate does.
Decision_FailureHalts(risk_manager, cfg, fetched, signal) ==
    IF fetched = Raise("Exception") THEN "limit_reached"
    ELSE IF Empty(fetched) THEN "no_data"
    ELSE IF signal \notin {"BUY", "SELL"} THEN "hold"
    ELSE IF ~check_daily_risk_limit(risk_manager) THEN "limit_reached"
    ELSE IF "close" \notin DOMAIN fetched.cols THEN "error"
    ELSE IF IsPositive(Trade(risk_manager, cfg, signal, fetched).position_size) THEN "executed"
    ELSE "not_sized"

\* The way one symbol's pass through the try block (lines 79-131) ends.
Decision(risk_manager, cfg, fetched, signal) ==
    IF fetched = Raise("Exception") THEN "fetch_failed"
    ELSE IF Empty(fetched) THEN "no_data"
    ELSE IF signal \notin {"BUY", "SELL"} THEN "hold"
    ELSE IF ~check_daily_risk_limit(risk_manager) THEN "limit_reached"
    ELSE IF "close" \notin DOMAIN fetched.cols THEN "error"
    ELSE IF IsPositive(Trade(risk_manager, cfg, signal, fetched).position_size) THEN "executed"
    ELSE "not_sized"

\* The number of add_log calls of a symbol's pass, by the way it ends.
LinesLogged(outcome) ==
    CASE outcome \in {"fetch_failed", "no_data"} -> 2
      [] outcome \in {"hold", "not_sized"} -> 3
      [] outcome \in {"limit_reached", "executed", "error"} -> 4

\* Lines 117-127: the row added to st.session_state.positions.
new_position(symbol, signal, trade, entry_time) ==
    [Symbol |-> symbol, Quantity |-> trade.position_size, Side |-> signal,
     Entry_Price |-> trade.entry_price, Current_Price |-> trade.entry_price,
     Unrealized_PL |-> Zero, Stop_Loss |-> trade.stop_loss_price,
     Take_Profit |-> trade.take_profit_price, Entry_Time |-> entry_time]

\* Lines 136-139: has the position been open for more than time_based_exit minutes?
ToClose(position, cfg, clock) == clock - position.Entry_Time > 60 * cfg.time_based_exit

----------------------------------------------------------------------------
(* Inputs *)

BalanceInputs    == {IntRat(i) : i \in -1 .. MaxBalance}
PctInputs        == {Rat(k, PctDen) : k \in -1 .. PctDen + 1}
LossInputs       == {IntRat(i) : i \in -1 .. MaxLossAmount}
PriceInputs      == {IntRat(i) : i \in -1 .. MaxPrice}
MultiplierInputs == {IntRat(i) : i \in -1 .. MaxMultiplier}
TrailPrices      == {IntRat(i) : i \in 1 .. MaxTrailPrice}
TargetPriceInputs == {IntRat(i) : i \in -1 .. MaxTargetPrice}
RatioInputs      == {IntRat(i) : i \in -1 .. MaxRatio}
OptPctInputs     == {None} \cup PctInputs
OptVolInputs     == {None} \cup {IntRat(i) : i \in -1 .. MaxVolatility}

\* Bar data as analyze_market_conditions sees it.
AtrInputs   == {NaN, IntRat(1), IntRat(2), IntRat(3)}
CloseInputs == {NaN, Zero, IntRat(100)}
AdxInputs   == {NaN, IntRat(10), IntRat(20), IntRat(30)}
ColumnInputs == {RequiredCols \cup {"volume"}, {"low", "close"}, {"high", "close"}, {"high", "low", "volume"}}
AnalysisInputs ==
    {[empty |-> TRUE, columns |-> {}, atr |-> NaN, close |-> NaN, adx |-> NaN, fails |-> "none"]}
    \cup
    {[empty |-> FALSE, columns |-> c, atr |-> a, close |-> cl, adx |-> x, fails |-> f] :
        c \in ColumnInputs, a \in AtrInputs, cl \in CloseInputs, x \in AdxInputs,
        f \in {"none", "atr", "adx"}}

\* market_conditions dicts: every combination of present / absent keys.
RegimeTags     == {"TRENDING_HIGH_VOL", "TRENDING_LOW_VOL", "RANGING_HIGH_VOL", "RANGING_LOW_VOL",
                   "UNKNOWN", "UNCERTAIN"}
VolatilityTags == {"high", "low", "unknown"}
TrendTags      == {"trending", "ranging", "unknown"}
TagsOf(key) ==
    IF key = "regime" THEN RegimeTags ELSE IF key = "volatility" THEN VolatilityTags ELSE TrendTags
ConditionsInputs ==
    UNION {{d \in [K -> RegimeTags \cup VolatilityTags \cup TrendTags] : \A k \in K : d[k] \in TagsOf(k)} :
           K \in SUBSET {"regime", "volatility", "trend"}}

\* Bar series as generate_signal sees them.  A series is described by its
\* length, the shape of its closes, a dip of the low or a spike of the high
\* on one of its last two bars, its volume, one NaN cell and its columns.
PriceColumns == {"close", "high", "low", "volume"}
LongLengths  == CombinedStrategy_init.pvg_long_period ..
                CombinedStrategy_init.pvg_long_period + MaxExtraBars
ShortLengths == {0, 1, CombinedStrategy_init.smc_lookback,
                 CombinedStrategy_init.pvg_long_period - 1}
Shapes       == {"up", "down", "flat", "tie_above", "tie_below"}
Tweaks       == {"none", "dip", "spike"}
NaNCells     == {"close_last", "volume_last", "high_recent", "low_first"}
ColumnSets   == {PriceColumns \ {"close"}, PriceColumns \ {"high"}, PriceColumns \ {"low"},
                 PriceColumns \ {"volume"}, {"close", "volume"}}

CloseOf(d, i) ==
    CASE d.shape = "up"        -> BasePrice + i
      [] d.shape = "down"      -> BasePrice - i
      [] d.shape = "flat"      -> BasePrice
      [] d.shape = "tie_above" -> IF i = d.n THEN BasePrice + TieOffset
                                  ELSE IF i = d.n - 1 THEN BasePrice - TieOffset
                                  ELSE BasePrice
      [] d.shape = "tie_below" -> IF i = d.n THEN BasePrice - TieOffset
                                  ELSE IF i = d.n - 1 THEN BasePrice + TieOffset
                                  ELSE BasePrice

CellOf(d, c, i) ==
    LET tweaked == i = d.n - d.at
    IN  CASE c = "close"  -> IF d.nan = "close_last" /\ i = d.n THEN NaN
                             ELSE IntRat(CloseOf(d, i))
          [] c = "high"   -> IF d.nan = "high_recent" /\ i = d.n - 5 THEN NaN
                             ELSE IntRat(CloseOf(d, i) + 1 +
                                         (IF tweaked /\ d.tweak = "spike" THEN SwingOffset ELSE 0))
          [] c = "low"    -> IF d.nan = "low_first" /\ i = 1 THEN NaN
                             ELSE IntRat(CloseOf(d, i) - 1 -
                                         (IF tweaked /\ d.tweak = "dip" THEN SwingOffset ELSE 0))
          [] c = "volume" -> IF d.nan = "volume_last" /\ i = d.n THEN NaN
                             ELSE IntRat(d.volume)

BarSeries(d) ==
    [len  |-> d.n,
     cols |-> [c \in d.columns |-> [i \in 1 .. d.n |-> CellOf(d, c, i)]]]

SeriesDescriptors ==
    [n : LongLengths, shape : Shapes, tweak : Tweaks, at : {0},
     volume : {0, VolumeLevel}, nan : {"none"}, columns : {PriceColumns}]
    \cup
    [n : ShortLengths, shape : {"up", "flat"}, tweak : {"dip"}, at : {0},
     volume : {VolumeLevel}, nan : {"none"}, columns : {PriceColumns}]
    \cup
    [n : {CombinedStrategy_init.pvg_long_period + MaxExtraBars}, shape : {"up", "down"},
     tweak : {"dip", "spike"}, at : {0, 1},
     volume : {VolumeLevel}, nan : NaNCells, columns : {PriceColumns}]
    \cup
    [n : {CombinedStrategy_init.pvg_long_period + MaxExtraBars}, shape : {"up", "down"},
     tweak : {"dip", "spike"}, at : {0},
     volume : {VolumeLevel}, nan : {"none"}, columns : ColumnSets]

SignalInputs == {BarSeries(d) : d \in SeriesDescriptors}

\* What the start button can be pressed with: the form's defaults, a large
\* risk/reward ratio, a balance RiskManager refuses and a broker without
\* integration.
ConfigInputs ==
    {[broker |-> b[1], symbols |-> <<"AAPL", "TSLA">>, initial_balance |-> IntRat(b[2]),
      risk_per_trade |-> One, risk_reward_ratio |-> IntRat(b[3]), time_based_exit |-> 1] :
        b \in {<<"Alpaca", 10000, 3>>, <<"Alpaca", 10000, 60>>,
               <<"Alpaca", 0, 3>>, <<"Binance", 10000, 3>>}}

\* What the broker's fetch_historical_data can hand to the loop: no bars, a
\* flat series, a rising series whose last bar dips, a falling series whose
\* last bar spikes, a rising series that dips on the bar before a last bar
\* without close; or an exception.
LoopDescriptors ==
    {[n |-> 0, shape |-> "flat", tweak |-> "none", at |-> 0,
      volume |-> VolumeLevel, nan |-> "none", columns |-> PriceColumns],
     [n |-> CombinedStrategy_init.pvg_long_period, shape |-> "flat", tweak |-> "none", at |-> 0,
      volume |-> VolumeLevel, nan |-> "none", columns |-> PriceColumns],
     [n |-> CombinedStrategy_init.pvg_long_period, shape |-> "up", tweak |-> "dip", at |-> 0,
      volume |-> VolumeLevel, nan |-> "none", columns |-> PriceColumns],
     [n |-> CombinedStrategy_init.pvg_long_period, shape |-> "down", tweak |-> "spike", at |-> 0,
      volume |-> VolumeLevel, nan |-> "none", columns |-> PriceColumns],
     [n |-> CombinedStrategy_init.pvg_long_period + 1, shape |-> "up", tweak |-> "dip", at |-> 1,
      volume |-> VolumeLevel, nan |-> "close_last", columns |-> PriceColumns]}

FetchResults == {BarSeries(d) : d \in LoopDescriptors} \cup {Raise("Exception")}

\* A loss that uses up the day's limit of an account of 10000 at 5 %.
LoopLossInputs == {IntRat(500)}

\* generate_signal on each series the broker can hand over.
StrategySignals ==
    {[historical_data |-> fetched, signal |-> generate_signal(CombinedStrategy_init, fetched)] :
        fetched \in {f \in FetchResults : f # Raise("Exception") /\ ~Empty(f)}}

Call(name, args) == [name |-> name, args |-> args]

\* The session state of streamlit_app.py before any agent is started, and
\* no loop running.
SessionStart ==
    /\ agent = None
    /\ agent_status = "Stopped"
    /\ session_account_balance = IntRat(10000)
    /\ positions = <<>>
    /\ logs = <<>>
    /\ config = None
    /\ pc = "idle"
    /\ cycle = 0
    /\ symbol_index = 0
    /\ now = 0

----------------------------------------------------------------------------
(* The RiskManager life cycle *)

Init ==
    /\ rm = None
    /\ lastOp = Call("none", <<>>)
    /\ ret = None
    /\ accepted_today = Zero
    /\ trailing_stop_level = Zero
    /\ long_position = TRUE
    /\ current_price = Zero
    /\ previous_price = Zero
    /\ trail_calls = 0
    /\ frames = <<>>
    /\ SessionStart

\* RiskManager(b, rpt, drl): a raise leaves the caller without an instance.
Construct(b, rpt, drl) ==
    /\ rm = None
    /\ LET r == RiskManager_init(b, rpt, drl)
       IN  /\ rm'  = IF IsInstance(r) THEN r ELSE None
           /\ ret' = IF IsInstance(r) THEN None ELSE r
    /\ lastOp' = Call("__init__", <<b, rpt, drl>>)
    /\ accepted_today' = Zero
    /\ UNCHANGED trailVars
    /\ UNCHANGED <<frames, sessionVars, loopVars>>

\* calculate_position_size that takes the amount at risk off the balance.
CalculatePositionSize_ReservesRisk(e, s, m) ==
    /\ IsInstance(rm)
    /\ ret' = calculate_position_size(rm, e, s, m)
    /\ lastOp' = Call("calculate_position_size", <<e, s, m>>)
    /\ rm' = [rm EXCEPT !.account_balance =
                 RatSub(@, RatMul(rm.account_balance, rm.risk_per_trade_percentage))]
    /\ UNCHANGED accepted_today
    /\ UNCHANGED trailVars
    /\ UNCHANGED <<frames, sessionVars, loopVars>>

CalculatePositionSize(e, s, m) ==
    /\ IsInstance(rm)
    /\ ret' = calculate_position_size(rm, e, s, m)
    /\ lastOp' = Call("calculate_position_size", <<e, s, m>>)
    /\ UNCHANGED <<rm, accepted_today>>
    /\ UNCHANGED trailVars
    /\ UNCHANGED <<frames, sessionVars, loopVars>>

CheckDailyRiskLimit ==
    /\ IsInstance(rm)
    /\ ret' = check_daily_risk_limit(rm)
    /\ lastOp' = Call("check_daily_risk_limit", <<>>)
    /\ UNCHANGED <<rm, accepted_today>>
    /\ UNCHANGED trailVars
    /\ UNCHANGED <<frames, sessionVars, loopVars>>

\* The exploration stops booking losses once the balance would pass -MaxOverdraw.
UpdateDailyLoss(a) ==
    /\ IsInstance(rm)
    /\ RatLE(IntRat(-MaxOverdraw), RatSub(rm.account_balance, a))
    /\ rm' = update_daily_loss(rm, a)
    /\ ret' = None
    /\ lastOp' = Call("update_daily_loss", <<a>>)
    /\ accepted_today' = IF RatLT(Zero, a) THEN RatAdd(accepted_today, a) ELSE accepted_today
    /\ UNCHANGED trailVars
    /\ UNCHANGED <<frames, sessionVars, loopVars>>

ResetDailyLoss ==
    /\ IsInstance(rm)
    /\ rm' = reset_daily_loss(rm)
    /\ ret' = None
    /\ lastOp' = Call("reset_daily_loss", <<>>)
    /\ accepted_today' = Zero
    /\ UNCHANGED trailVars
    /\ UNCHANGED <<frames, sessionVars, loopVars>>

Next ==
    \/ \E b \in BalanceInputs, rpt \in PctInputs, drl \in PctInputs : Construct(b, rpt, drl)
    \/ \E e \in PriceInputs, s \in PriceInputs, m \in MultiplierInputs : CalculatePositionSize(e, s, m)
    \/ CheckDailyRiskLimit
    \/ \E a \in LossInputs : UpdateDailyLoss(a)
    \/ ResetDailyLoss

Spec == Init /\ [][Next]_vars

----------------------------------------------------------------------------
(* A position's trailing stop: the caller feeds each returned stop back in *)

InitTrail ==
    /\ rm = RiskManager_init(IntRat(MaxBalance), Rat(1, PctDen), Rat(1, PctDen))
    /\ lastOp = Call("__init__", <<IntRat(MaxBalance), Rat(1, PctDen), Rat(1, PctDen)>>)
    /\ ret = None
    /\ accepted_today = Zero
    /\ trailing_stop_level \in TrailPrices
    /\ long_position \in BOOLEAN
    /\ current_price = Zero
    /\ previous_price = Zero
    /\ trail_calls = 0
    /\ frames = <<>>
    /\ SessionStart

UpdateTrailingStop(p) ==
    /\ IsInstance(rm)
    /\ trail_calls < MaxTrailCalls
    /\ ret' = update_trailing_stop(p, trailing_stop_level, long_position)
    /\ trailing_stop_level' = ret'
    /\ current_price' = p
    /\ previous_price' = current_price
    /\ trail_calls' = trail_calls + 1
    /\ lastOp' = Call("update_trailing_stop", <<p, trailing_stop_level, long_position>>)
    /\ UNCHANGED <<rm, accepted_today, long_position>>
    /\ UNCHANGED <<frames, sessionVars, loopVars>>

NextTrail == \E p \in TrailPrices : UpdateTrailingStop(p)

SpecTrail == InitTrail /\ [][NextTrail]_vars

----------------------------------------------------------------------------
(* Stop and target prices: two methods that read nothing but their arguments *)

InitPrice ==
    /\ rm = RiskManager_init(IntRat(MaxBalance), Rat(1, PctDen), Rat(1, PctDen))
    /\ lastOp = Call("__init__", <<IntRat(MaxBalance), Rat(1, PctDen), Rat(1, PctDen)>>)
    /\ ret = None
    /\ accepted_today = Zero
    /\ trailing_stop_level = Zero
    /\ long_position = TRUE
    /\ current_price = Zero
    /\ previous_price = Zero
    /\ trail_calls = 0
    /\ frames = <<>>
    /\ SessionStart

DetermineStopLoss(e, pct, vol) ==
    /\ IsInstance(rm)
    /\ ret' = determine_stop_loss(rm, e, pct, vol)
    /\ lastOp' = Call("determine_stop_loss", <<e, pct, vol>>)
    /\ UNCHANGED <<rm, accepted_today>>
    /\ UNCHANGED trailVars
    /\ UNCHANGED <<frames, sessionVars, loopVars>>

DetermineTakeProfit(e, s, r) ==
    /\ IsInstance(rm)
    /\ ret' = determine_take_profit(rm, e, s, r)
    /\ lastOp' = Call("determine_take_profit", <<e, s, r>>)
    /\ UNCHANGED <<rm, accepted_today>>
    /\ UNCHANGED trailVars
    /\ UNCHANGED <<frames, sessionVars, loopVars>>

NextPrice ==
    \/ \E e \in PriceInputs, pct \in OptPctInputs, vol \in OptVolInputs : DetermineStopLoss(e, pct, vol)
    \/ \E e \in TargetPriceInputs, s \in TargetPriceInputs, r \in RatioInputs : DetermineTakeProfit(e, s, r)

SpecPrice == InitPrice /\ [][NextPrice]_vars

----------------------------------------------------------------------------
(* Regime classification and strategy advice *)

InitAdapt ==
    /\ rm = None
    /\ lastOp = Call("none", <<>>)
    /\ ret = None
    /\ accepted_today = Zero
    /\ trailing_stop_level = Zero
    /\ long_position = TRUE
    /\ current_price = Zero
    /\ previous_price = Zero
    /\ trail_calls = 0
    /\ frames = <<>>
    /\ SessionStart

AnalyzeMarketConditions(data) ==
    /\ ret' = analyze_market_conditions(DefaultAdaptabilityManager, data)
    /\ lastOp' = Call("analyze_market_conditions", <<data>>)
    /\ UNCHANGED <<rm, accepted_today>>
    /\ UNCHANGED trailVars
    /\ UNCHANGED <<frames, sessionVars, loopVars>>

SuggestStrategyAdjustment(market_conditions) ==
    /\ ret' = suggest_strategy_adjustment(DefaultAdaptabilityManager, market_conditions)
    /\ lastOp' = Call("suggest_strategy_adjustment", <<market_conditions>>)
    /\ UNCHANGED <<rm, accepted_today>>
    /\ UNCHANGED trailVars
    /\ UNCHANGED <<frames, sessionVars, loopVars>>

NextAdapt ==
    \/ \E data \in AnalysisInputs : AnalyzeMarketConditions(data)
    \/ \E market_conditions \in ConditionsInputs : SuggestStrategyAdjustment(market_conditions)

SpecAdapt == InitAdapt /\ [][NextAdapt]_vars

----------------------------------------------------------------------------
(* Signal generation *)

\* generate_signal keeps nothing between calls: each behaviour is one call,
\* on a bar series the caller holds.
InitSignal ==
    /\ rm = None
    /\ \E data \in SignalInputs : lastOp = Call("caller_has_bars", <<data>>)
    /\ ret = None
    /\ accepted_today = Zero
    /\ trailing_stop_level = Zero
    /\ long_position = TRUE
    /\ current_price = Zero
    /\ previous_price = Zero
    /\ trail_calls = 0
    /\ frames = ("data" :> lastOp.args[1])
    /\ SessionStart

\* The objects local to the call are gone when it returns.
GenerateSignal ==
    /\ lastOp.name = "caller_has_bars"
    /\ ret' = generate_signal(CombinedStrategy_init, frames["data"])
    /\ LET after == generate_signal_objects(CombinedStrategy_init, frames, "data")
       IN  frames' = [o \in DOMAIN frames |-> after[o]]
    /\ lastOp' = Call("generate_signal", lastOp.args)
    /\ UNCHANGED <<rm, accepted_today>>
    /\ UNCHANGED trailVars
    /\ UNCHANGED <<sessionVars, loopVars>>

NextSignal == GenerateSignal

SpecSignal == InitSignal /\ [][NextSignal]_vars

----------------------------------------------------------------------------
(* The trading loop of the dashboard, with the stop button and losses      *)
(* booked on the agent's RiskManager while it runs                         *)

InitLoop ==
    /\ rm = None
    /\ lastOp = Call("none", <<>>)
    /\ ret = None
    /\ accepted_today = Zero
    /\ trailing_stop_level = Zero
    /\ long_position = TRUE
    /\ current_price = Zero
    /\ previous_price = Zero
    /\ trail_calls = 0
    /\ frames = <<>>
    /\ SessionStart

\* start_agent (lines 166-192) up to the first line of run_trading_loop.
StartAgent(cfg) ==
    /\ pc = "idle"
    /\ agent_status = "Stopped"
    /\ LET trading_agent == TradingAgent_init(cfg)
           started       == add_log(logs, now, Line)
       IN  IF IsInstance(Get(trading_agent, "risk_manager", None))
           THEN /\ agent' = [kind |-> "TradingAgent"]
                /\ agent_status' = "Running"
                /\ session_account_balance' = cfg.initial_balance
                /\ rm' = trading_agent.risk_manager
                /\ config' = cfg
                /\ logs' = add_log_times(started, now, Line, 2)
                /\ pc' = "while"
                /\ ret' = None
           ELSE /\ agent_status' = "Stopped"
                /\ session_account_balance' =
                       IF cfg.broker = "Alpaca" THEN cfg.initial_balance
                       ELSE session_account_balance
                /\ logs' = add_log_times(started, now, Line,
                                         IF cfg.broker = "Alpaca" THEN 1 ELSE 2)
                /\ pc' = "done"
                /\ ret' = trading_agent
                /\ UNCHANGED <<agent, rm, config>>
    /\ lastOp' = Call("start_agent", <<cfg>>)
    /\ UNCHANGED <<accepted_today, positions, cycle, symbol_index, now, frames>>
    /\ UNCHANGED trailVars

\* Line 76.  No pass beyond MaxCycles is explored.
WhileTest ==
    /\ pc = "while"
    /\ agent_status = "Running" => cycle < MaxCycles
    /\ IF agent_status = "Running"
       THEN /\ cycle' = cycle + 1
            /\ symbol_index' = 1
            /\ pc' = "for"
       ELSE /\ pc' = "terminate"
            /\ UNCHANGED <<cycle, symbol_index>>
    /\ lastOp' = Call("while", <<>>)
    /\ ret' = None
    /\ UNCHANGED <<rm, accepted_today, frames, config, now>>
    /\ UNCHANGED sessionVars
    /\ UNCHANGED trailVars

\* Lines 77-131 for the symbol the for loop is at.
ProcessSymbol(fetched) ==
    /\ pc = "for"
    /\ LET symbol  == config.symbols[symbol_index]
           signal  == IF fetched = Raise("Exception") THEN "unbound"
                      ELSE IF Empty(fetched) THEN "unbound"
                      ELSE (CHOOSE run \in StrategySignals : run.historical_data = fetched).signal
           outcome == Decision(rm, config, fetched, signal)
           last    == symbol_index = Len(config.symbols)
       IN  /\ logs' = add_log_times(logs, now, Line, LinesLogged(outcome))
           /\ positions' =
                 IF outcome = "executed"
                 THEN Append(positions,
                             new_position(symbol, signal, Trade(rm, config, signal, fetched), now))
                 ELSE positions
           /\ agent_status' = IF outcome = "limit_reached" THEN "Stopped" ELSE agent_status
           /\ pc' = IF outcome = "limit_reached" \/ last THEN "exit_logic" ELSE "for"
           /\ symbol_index' = IF outcome = "limit_reached" \/ last THEN symbol_index
                              ELSE symbol_index + 1
           /\ lastOp' = Call("process_symbol", <<symbol, fetched>>)
           /\ ret' = [outcome |-> outcome, signal |-> signal]
    /\ UNCHANGED <<rm, accepted_today, frames, config, cycle, now>>
    /\ UNCHANGED <<agent, session_account_balance>>
    /\ UNCHANGED trailVars

\* Lines 134-143.
ExitLogic ==
    /\ pc = "exit_logic"
    /\ LET to_close(position) == ToClose(position, config, now)
           stay(position)     == ~ToClose(position, config, now)
       IN  /\ logs' = add_log_times(logs, now, Line, Len(SelectSeq(positions, to_close)))
           /\ positions' = SelectSeq(positions, stay)
    /\ pc' = "cycle_end"
    /\ lastOp' = Call("exit_logic", <<>>)
    /\ ret' = None
    /\ UNCHANGED <<rm, accepted_today, frames, config, cycle, symbol_index, now>>
    /\ UNCHANGED <<agent, agent_status, session_account_balance>>
    /\ UNCHANGED trailVars

\* Lines 146-149.
CycleEnd ==
    /\ pc = "cycle_end"
    /\ IF agent_status # "Running"
       THEN /\ pc' = "terminate"
            /\ UNCHANGED logs
       ELSE /\ pc' = "sleep"
            /\ logs' = add_log(logs, now, Line)
    /\ lastOp' = Call("cycle_end", <<>>)
    /\ ret' = None
    /\ UNCHANGED <<rm, accepted_today, frames, config, cycle, symbol_index, now>>
    /\ UNCHANGED <<agent, agent_status, session_account_balance, positions>>
    /\ UNCHANGED trailVars

\* Lines 152-154: 60 sleeps of a second, none once the agent is stopped.
Sleep ==
    /\ pc = "sleep"
    /\ now' = IF agent_status = "Running" THEN now + 60 + PassSeconds ELSE now
    /\ pc' = "while"
    /\ lastOp' = Call("sleep", <<>>)
    /\ ret' = None
    /\ UNCHANGED <<rm, accepted_today, frames, config, cycle, symbol_index>>
    /\ UNCHANGED sessionVars
    /\ UNCHANGED trailVars

\* Line 156, and start_agent returns.
Terminate ==
    /\ pc = "terminate"
    /\ logs' = add_log(logs, now, Line)
    /\ pc' = "done"
    /\ lastOp' = Call("terminate", <<>>)
    /\ ret' = None
    /\ UNCHANGED <<rm, accepted_today, frames, config, cycle, symbol_index, now>>
    /\ UNCHANGED <<agent, agent_status, session_account_balance, positions>>
    /\ UNCHANGED trailVars

\* stop_agent (lines 194-197); its button is enabled while the status is Running.
StopAgent ==
    /\ agent_status = "Running"
    /\ agent_status' = "Stopped"
    /\ agent' = None
    /\ logs' = add_log(logs, now, Line)
    /\ lastOp' = Call("stop_agent", <<>>)
    /\ ret' = None
    /\ UNCHANGED <<rm, accepted_today, frames, session_account_balance, positions>>
    /\ UNCHANGED loopVars
    /\ UNCHANGED trailVars

\* A loss booked on the agent's RiskManager between two symbols, while the
\* day's limit is not yet reached.
LossBooked(a) ==
    /\ pc = "for"
    /\ check_daily_risk_limit(rm)
    /\ rm' = update_daily_loss(rm, a)
    /\ accepted_today' = IF RatLT(Zero, a) THEN RatAdd(accepted_today, a) ELSE accepted_today
    /\ lastOp' = Call("update_daily_loss", <<a>>)
    /\ ret' = None
    /\ UNCHANGED frames
    /\ UNCHANGED sessionVars
    /\ UNCHANGED loopVars
    /\ UNCHANGED trailVars

NextLoop ==
    \/ \E cfg \in ConfigInputs : StartAgent(cfg)
    \/ WhileTest
    \/ \E fetched \in FetchResults : ProcessSymbol(fetched)
    \/ ExitLogic
    \/ CycleEnd
    \/ Sleep
    \/ Terminate
    \/ StopAgent
    \/ \E a \in LoopLossInputs : LossBooked(a)

SpecLoop == InitLoop /\ [][NextLoop]_vars

----------------------------------------------------------------------------
(* One RiskManager under all seven of its methods                          *)

FramePrices == {IntRat(i) : i \in -1 .. MaxFramePrice}

\* update_trailing_stop(p, level, is_long) on the instance, its result not kept.
AskTrailingStop(p, level, is_long) ==
    /\ IsInstance(rm)
    /\ ret' = update_trailing_stop(p, level, is_long)
    /\ lastOp' = Call("update_trailing_stop", <<p, level, is_long>>)
    /\ UNCHANGED <<rm, accepted_today>>
    /\ UNCHANGED trailVars
    /\ UNCHANGED <<frames, sessionVars, loopVars>>

NextFrame ==
    \/ \E e \in FramePrices, s \in FramePrices, m \in MultiplierInputs : CalculatePositionSize(e, s, m)
    \/ \E e \in FramePrices, pct \in OptPctInputs, vol \in OptVolInputs : DetermineStopLoss(e, pct, vol)
    \/ \E e \in FramePrices, s \in FramePrices, r \in RatioInputs : DetermineTakeProfit(e, s, r)
    \/ \E p \in FramePrices, level \in FramePrices, is_long \in BOOLEAN : AskTrailingStop(p, level, is_long)
    \/ CheckDailyRiskLimit
    \/ \E a \in LossInputs : UpdateDailyLoss(a)
    \/ ResetDailyLoss

SpecFrame == InitPrice /\ [][NextFrame]_vars

----------------------------------------------------------------------------
(* The activity log under a run of add_log calls, one per second           *)

\* add_log(message), called when the clock reads now.
AddLog(message) ==
    /\ now < 100 + MaxExtraLogs
    /\ logs' = add_log(logs, now, message)
    /\ now' = now + 1
    /\ lastOp' = Call("add_log", <<message>>)
    /\ ret' = None
    /\ UNCHANGED <<rm, accepted_today, frames, config, pc, cycle, symbol_index>>
    /\ UNCHANGED <<agent, agent_status, session_account_balance, positions>>
    /\ UNCHANGED trailVars

NextLog == AddLog(Line)

SpecLog == InitLoop /\ [][NextLog]_vars

----------------------------------------------------------------------------
(* Properties *)

DailyLimit(self) == RatMul(self.initial_balance, self.daily_risk_limit_percentage)

\* C1: check_daily_risk_limit() returns True iff daily_loss_incurred <
\* initial_balance * daily_risk_limit_percentage; a loss equal to the limit
\* or above it gives False.
C1_DailyLimitIffBelow ==
    lastOp.name = "check_daily_risk_limit" =>
        /\ (ret = TRUE)  <=> RatLT(rm.daily_loss_incurred, DailyLimit(rm))
        /\ (ret = FALSE) <=> RatLE(DailyLimit(rm), rm.daily_loss_incurred)

\* The gate has been asked with the loss exactly on the limit.
C1_Witness ==
    /\ lastOp.name = "check_daily_risk_limit"
    /\ rm.daily_loss_incurred = DailyLimit(rm)
    /\ ret = FALSE

\* C2: daily_loss_incurred never decreases in a step other than
\* reset_daily_loss, which sets it to 0, and it is never negative.
C2_LossMonotone ==
    /\ [][IsInstance(rm) /\ IsInstance(rm') =>
            IF lastOp'.name = "reset_daily_loss"
            THEN rm'.daily_loss_incurred = Zero
            ELSE RatLE(rm.daily_loss_incurred, rm'.daily_loss_incurred)]_vars
    /\ [](IsInstance(rm) => RatLE(Zero, rm.daily_loss_incurred))

\* A negative amount was passed on a day that already carries a loss.
C2_Witness ==
    /\ lastOp.name = "update_daily_loss"
    /\ RatLT(lastOp.args[1], Zero)
    /\ RatLT(Zero, rm.daily_loss_incurred)

\* C3: update_daily_loss(a) with a > 0 adds exactly a to daily_loss_incurred
\* and takes exactly a from account_balance, and successive calls accumulate:
\* the day's loss is the sum of the amounts accepted since the day began and
\* the balance has dropped by that sum.
C3_LossBooked ==
    /\ [][(/\ IsInstance(rm)
           /\ lastOp'.name = "update_daily_loss"
           /\ RatLT(Zero, lastOp'.args[1]))
          => /\ rm'.daily_loss_incurred = RatAdd(rm.daily_loss_incurred, lastOp'.args[1])
             /\ rm'.account_balance = RatSub(rm.account_balance, lastOp'.args[1])
             /\ rm'.initial_balance = rm.initial_balance]_vars
    /\ [](IsInstance(rm) =>
            /\ rm.daily_loss_incurred = accepted_today
            /\ rm.account_balance = RatSub(rm.initial_balance, accepted_today))

\* A second positive loss has been booked on the same day.
C3_Witness ==
    /\ lastOp.name = "update_daily_loss"
    /\ RatLT(Zero, lastOp.args[1])
    /\ RatLT(lastOp.args[1], accepted_today)
    /\ rm.daily_loss_incurred = accepted_today

\* C4: update_daily_loss(a) with a <= 0 raises nothing and leaves the whole
\* instance as it was.
C4_NonPositiveLossRejected ==
    [][(/\ IsInstance(rm)
        /\ lastOp'.name = "update_daily_loss"
        /\ RatLE(lastOp'.args[1], Zero))
       => /\ rm' = rm
          /\ ret' = None]_vars

\* A zero amount was passed on a day that already carries a loss.
C4_Witness ==
    /\ lastOp.name = "update_daily_loss"
    /\ lastOp.args[1] = Zero
    /\ RatLT(Zero, rm.daily_loss_incurred)
    /\ ret = None

\* C5: reset_daily_loss() sets daily_loss_incurred to 0 and initial_balance
\* to the current account_balance and leaves account_balance and the two
\* percentages alone.
C5_ResetFrame ==
    [][(IsInstance(rm) /\ lastOp'.name = "reset_daily_loss")
       => /\ rm'.daily_loss_incurred = Zero
          /\ rm'.initial_balance = rm.account_balance
          /\ rm'.account_balance = rm.account_balance
          /\ rm'.risk_per_trade_percentage = rm.risk_per_trade_percentage
          /\ rm'.daily_risk_limit_percentage = rm.daily_risk_limit_percentage]_vars

\* The day was rolled over after losses: the reference balance is one that
\* construction cannot produce.
C5_Witness ==
    /\ lastOp.name = "reset_daily_loss"
    /\ rm.daily_loss_incurred = Zero
    /\ rm.initial_balance = rm.account_balance
    /\ RatLE(rm.initial_balance, Zero)

InUnitRange(pct) == RatLT(Zero, pct) /\ RatLE(pct, One)

\* C6: construction raises ValueError and yields no instance when either
\* percentage is outside (0,1] or the balance is <= 0; otherwise the
\* instance has account_balance = initial_balance = the balance given and
\* daily_loss_incurred = 0.
C6_ConstructionValidated ==
    lastOp.name = "__init__" =>
        LET b   == lastOp.args[1]
            rpt == lastOp.args[2]
            drl == lastOp.args[3]
        IN  IF ~InUnitRange(rpt) \/ ~InUnitRange(drl) \/ RatLE(b, Zero)
            THEN rm = None /\ ret = Raise("ValueError")
            ELSE /\ IsInstance(rm)
                 /\ ret = None
                 /\ rm.account_balance = b
                 /\ rm.initial_balance = b
                 /\ rm.risk_per_trade_percentage = rpt
                 /\ rm.daily_risk_limit_percentage = drl
                 /\ rm.daily_loss_incurred = Zero

\* Construction was refused for the balance alone.
C6_Witness ==
    /\ lastOp.name = "__init__"
    /\ InUnitRange(lastOp.args[2])
    /\ InUnitRange(lastOp.args[3])
    /\ lastOp.args[1] = Zero
    /\ rm = None
    /\ ret = Raise("ValueError")

\* C7: with asset_multiplier = 1, calculate_position_size(entry, stop) is
\* (account_balance * risk_per_trade_percentage) / |entry - stop| when both
\* prices are positive and differ, and 0 when a price is <= 0 or they are equal.
C7_PositionSizeFormula ==
    (lastOp.name = "calculate_position_size" /\ lastOp.args[3] = One) =>
        LET e == lastOp.args[1]
            s == lastOp.args[2]
            d == IF RatLT(e, s) THEN RatSub(s, e) ELSE RatSub(e, s)
        IN  IF RatLE(e, Zero) \/ RatLE(s, Zero) \/ e = s
            THEN ret = Zero
            ELSE /\ IsRat(ret)
                 /\ RatMul(ret, d) = RatMul(rm.account_balance, rm.risk_per_trade_percentage)

\* A short pair (stop above entry) two price units apart was sized.
C7_Witness ==
    /\ lastOp.name = "calculate_position_size"
    /\ lastOp.args = <<IntRat(1), IntRat(3), One>>
    /\ IsRat(ret)
    /\ RatLT(Zero, ret)

\* C8: the quantity calculate_position_size returns is >= 0 in every state
\* reachable through update_daily_loss / reset_daily_loss and for every
\* entry_price, stop_loss_price and asset_multiplier.
C8_PositionSizeNonNegative ==
    lastOp.name = "calculate_position_size" =>
        /\ IsRat(ret)
        /\ RatLE(Zero, ret)

TrailStep == trail_calls' = trail_calls + 1

\* C9: fed back into itself, the trailing stop only ratchets: for a long
\* position each result is max(previous stop, price * 0.98) and so never
\* below the previous stop; for a short position each result is
\* min(previous stop, price * 1.02) and so never above it.
C9_TrailingStopRatchets ==
    [][TrailStep =>
         IF long_position
         THEN /\ RatLE(trailing_stop_level, trailing_stop_level')
              /\ RatLE(RatMul(current_price', TrailLongFactor), trailing_stop_level')
              /\ \/ trailing_stop_level' = trailing_stop_level
                 \/ trailing_stop_level' = RatMul(current_price', TrailLongFactor)
         ELSE /\ RatLE(trailing_stop_level', trailing_stop_level)
              /\ RatLE(trailing_stop_level', RatMul(current_price', TrailShortFactor))
              /\ \/ trailing_stop_level' = trailing_stop_level
                 \/ trailing_stop_level' = RatMul(current_price', TrailShortFactor)]_vars

\* A long stop that an earlier, higher price had raised was held through a
\* later call whose candidate was below it.
C9_Witness ==
    /\ trail_calls >= 2
    /\ long_position
    /\ RatLT(current_price, previous_price)
    /\ trailing_stop_level = RatMul(previous_price, TrailLongFactor)
    /\ lastOp.args[2] = trailing_stop_level

\* C10 as stated: for a long position every call of a decreasing price
\* sequence, its first call included, returns the level it was given.
C10_DecreasingLeavesStop ==
    [][(/\ TrailStep
        /\ long_position
        /\ (trail_calls = 0 \/ RatLT(current_price', current_price)))
       => trailing_stop_level' = trailing_stop_level]_vars

\* C10 (amended): for a long position, every call of a decreasing price
\* sequence after its first returns the level it was given; the first call
\* returns max(level, price * 0.98), which raises a stop that was more than
\* 2% below the price.
C10_DecreasingLeavesStopAfterFirst ==
    [][(/\ TrailStep
        /\ long_position
        /\ trail_calls >= 1
        /\ RatLT(current_price', current_price))
       => /\ trailing_stop_level' = trailing_stop_level
          /\ ret' = lastOp'.args[2]]_vars

\* The first call of a long position raised the stop and the next, lower
\* price left it there.
C10_Witness ==
    /\ trail_calls = 2
    /\ long_position
    /\ RatLT(current_price, previous_price)
    /\ RatLT(IntRat(1), trailing_stop_level)
    /\ trailing_stop_level = RatMul(previous_price, TrailLongFactor)
    /\ ret = lastOp.args[2]

\* The reward distance |entry - stop| * ratio of a determine_take_profit call.
RewardDistance(e, s, r) ==
    RatMul(IF RatLT(e, s) THEN RatSub(s, e) ELSE RatSub(e, s), r)

TakeProfitInputsValid(e, s, r) ==
    RatLT(Zero, e) /\ RatLT(Zero, s) /\ RatLT(Zero, r) /\ e # s

\* C11: determine_take_profit returns NaN exactly when entry <= 0, stop <= 0,
\* ratio <= 0 or entry = stop; otherwise entry + |entry-stop|*ratio for a
\* long, and entry - |entry-stop|*ratio for a short when that value is
\* positive.  It raises nothing and leaves the RiskManager as it was.
C11_TakeProfitReference ==
    /\ [](lastOp.name = "determine_take_profit" =>
            LET e == lastOp.args[1]
                s == lastOp.args[2]
                r == lastOp.args[3]
            IN  /\ (ret = NaN) <=> ~TakeProfitInputsValid(e, s, r)
                /\ ret = NaN \/ IsRat(ret)
                /\ (TakeProfitInputsValid(e, s, r) /\ RatLT(s, e))
                      => ret = RatAdd(e, RewardDistance(e, s, r))
                /\ (TakeProfitInputsValid(e, s, r) /\ RatLT(e, s)
                      /\ RatLT(Zero, RatSub(e, RewardDistance(e, s, r))))
                      => ret = RatSub(e, RewardDistance(e, s, r)))
    /\ [][lastOp'.name = "determine_take_profit" => rm' = rm]_vars

\* A short target was priced: entry 3, stop 4, ratio 2 gives 1.
C11_Witness ==
    /\ lastOp.name = "determine_take_profit"
    /\ lastOp.args = <<IntRat(3), IntRat(4), IntRat(2)>>
    /\ ret = IntRat(1)

\* C12: in the short case, whenever entry - |entry-stop|*ratio is <= 0
\* (zero included) the result is entry * 0.05, so every defined take-profit
\* price is strictly positive.
C12_ShortTargetFloored ==
    lastOp.name = "determine_take_profit" =>
        LET e == lastOp.args[1]
            s == lastOp.args[2]
            r == lastOp.args[3]
        IN  /\ (TakeProfitInputsValid(e, s, r) /\ RatLT(e, s)
                  /\ RatLE(RatSub(e, RewardDistance(e, s, r)), Zero))
                  => ret = RatMul(e, TakeProfitFallbackFactor)
            /\ IsRat(ret) => RatLT(Zero, ret)

\* Two consecutive determine_take_profit calls that price the long and the
\* short side of the same entry, distance and ratio.
MirroredTakeProfitCalls ==
    /\ lastOp.name = "determine_take_profit"
    /\ lastOp'.name = "determine_take_profit"
    /\ lastOp'.args[1] = lastOp.args[1]
    /\ lastOp'.args[3] = lastOp.args[3]
    /\ RatLT(Zero, lastOp.args[1])
    /\ RatLT(Zero, lastOp.args[2])
    /\ RatLT(Zero, lastOp.args[3])
    /\ RatLT(lastOp.args[2], lastOp.args[1])
    /\ RatSub(lastOp'.args[2], lastOp.args[1]) = RatSub(lastOp.args[1], lastOp.args[2])

\* C13 as stated: for every entry e > 0, distance d with 0 < d < e and
\* ratio r > 0, the long offset from entry is the negation of the short one.
C13_TakeProfitAntiSymmetric ==
    [][MirroredTakeProfitCalls =>
         RatSub(ret, lastOp.args[1]) = RatSub(Zero, RatSub(ret', lastOp.args[1]))]_vars

\* C13 (amended): the offsets are negations of each other whenever the
\* short target e - d*r is positive, that is whenever the fallback
\* entry * 0.05 does not replace it.
C13_TakeProfitAntiSymmetricAboveFloor ==
    [][(/\ MirroredTakeProfitCalls
        /\ RatLT(Zero, RatSub(lastOp.args[1], RewardDistance(lastOp.args[1], lastOp.args[2], lastOp.args[3]))))
       => /\ IsRat(ret)
          /\ IsRat(ret')
          /\ RatSub(ret, lastOp.args[1]) = RatSub(Zero, RatSub(ret', lastOp.args[1]))]_vars

\* The short side of a mirrored pair was priced above the floor: entry 2,
\* stop 3, ratio 1 gives 1, an offset of -1.
C13_Witness ==
    /\ lastOp.name = "determine_take_profit"
    /\ lastOp.args = <<IntRat(2), IntRat(3), IntRat(1)>>
    /\ ret = IntRat(1)

\* C14: determine_stop_loss is NaN for entry <= 0; else with a percentage
\* given, entry*(1-pct) for 0 < pct < 1 and NaN otherwise, whatever the
\* volatility argument; else with a volatility given, entry - 1.5*volatility,
\* replaced by entry*0.95 when that is <= 0; else NaN.
C14_StopLossReference ==
    lastOp.name = "determine_stop_loss" =>
        LET e   == lastOp.args[1]
            pct == lastOp.args[2]
            vol == lastOp.args[3]
        IN  CASE RatLE(e, Zero) -> ret = NaN
              [] RatLT(Zero, e) /\ pct # None ->
                    IF RatLT(Zero, pct) /\ RatLT(pct, One)
                    THEN /\ IsRat(ret)
                         /\ RatAdd(ret, RatMul(e, pct)) = e
                    ELSE ret = NaN
              [] RatLT(Zero, e) /\ pct = None /\ vol # None ->
                    LET raw == RatSub(e, RatMul(vol, Rat(15, 10)))
                    IN  IF RatLE(raw, Zero)
                        THEN ret = RatMul(e, Rat(95, 100))
                        ELSE ret = raw
              [] RatLT(Zero, e) /\ pct = None /\ vol = None -> ret = NaN

\* A percentage and a volatility were both given and the percentage won.
C14_Witness ==
    /\ lastOp.name = "determine_stop_loss"
    /\ lastOp.args = <<IntRat(2), Rat(1, PctDen), IntRat(1)>>
    /\ ret = RatMul(IntRat(2), RatSub(One, Rat(1, PctDen)))

\* The analysis reached the end of its try block: the data was not empty,
\* had the required columns, and no indicator raised.
Derived(data) ==
    ~data.empty /\ RequiredCols \subseteq data.columns /\ data.fails = "none"

\* C15: the regime analyze_market_conditions produces is a total function
\* of the (trend, volatility) pair it derived: the four defined pairs give
\* their four tags and every pair with an 'unknown' component gives
\* UNCERTAIN.
C15_RegimeFunctionOfPair ==
    (lastOp.name = "analyze_market_conditions" /\ Derived(lastOp.args[1])) =>
        /\ DOMAIN ret = {"regime", "trend", "volatility"}
        /\ ret.trend \in TrendTags
        /\ ret.volatility \in VolatilityTags
        /\ ret.regime =
             CASE ret.trend = "trending" /\ ret.volatility = "high" -> "TRENDING_HIGH_VOL"
               [] ret.trend = "trending" /\ ret.volatility = "low"  -> "TRENDING_LOW_VOL"
               [] ret.trend = "ranging"  /\ ret.volatility = "high" -> "RANGING_HIGH_VOL"
               [] ret.trend = "ranging"  /\ ret.volatility = "low"  -> "RANGING_LOW_VOL"
               [] ret.trend = "unknown" \/ ret.volatility = "unknown" -> "UNCERTAIN"

\* A trending market of low volatility was classified.
C15_Witness ==
    /\ lastOp.name = "analyze_market_conditions"
    /\ Derived(lastOp.args[1])
    /\ ret = [trend |-> "trending", volatility |-> "low", regime |-> "TRENDING_LOW_VOL"]

\* C16: analyze_market_conditions raises nothing and its result always has
\* a 'regime': empty data or data without a high / low / close column give
\* {regime: UNKNOWN}; an exception during the indicator computation gives
\* {regime: UNKNOWN, volatility: unknown, trend: unknown}.
C16_AnalysisFailsSoft ==
    lastOp.name = "analyze_market_conditions" =>
        LET data == lastOp.args[1]
        IN  /\ "regime" \in DOMAIN ret
            /\ (data.empty \/ ~(RequiredCols \subseteq data.columns))
                  => ret = [regime |-> "UNKNOWN"]
            /\ (~data.empty /\ RequiredCols \subseteq data.columns /\ data.fails # "none")
                  => ret = [regime |-> "UNKNOWN", volatility |-> "unknown", trend |-> "unknown"]

\* The ADX computation raised on well-formed data and the caller got the
\* all-unknown result.
C16_Witness ==
    /\ lastOp.name = "analyze_market_conditions"
    /\ ~lastOp.args[1].empty
    /\ RequiredCols \subseteq lastOp.args[1].columns
    /\ lastOp.args[1].fails = "adx"
    /\ ret = [regime |-> "UNKNOWN", volatility |-> "unknown", trend |-> "unknown"]

\* The regime table the advisor is specified by; any tag outside the four
\* defined ones, or no tag, takes the conservative default.
AdviceTable(regime) ==
    CASE regime = "TRENDING_HIGH_VOL" -> <<"trend_following", Rat(4, 5), Rat(3, 2), IntRat(2)>>
      [] regime = "TRENDING_LOW_VOL"  -> <<"trend_following", One, One, Rat(3, 2)>>
      [] regime = "RANGING_HIGH_VOL"  -> <<"range_bound", Rat(3, 5), Rat(9, 5), Rat(6, 5)>>
      [] regime = "RANGING_LOW_VOL"   -> <<"range_bound", One, One, One>>
      [] OTHER                        -> <<"hold", Rat(1, 2), One, One>>

\* C17: suggest_strategy_adjustment never fails; strategy_type,
\* risk_per_trade_multiplier and take_profit_multiplier are the regime's
\* table values (the default hold / 0.5 / 1.0 / 1.0 entry for UNKNOWN,
\* UNCERTAIN or a missing regime), and stop_loss_multiplier is the table
\* value times 1.2 for volatility high, times 0.8 for low, unchanged otherwise.
C17_AdviceTableAndVolatilityFactor ==
    lastOp.name = "suggest_strategy_adjustment" =>
        LET c      == lastOp.args[1]
            entry  == AdviceTable(IF "regime" \in DOMAIN c THEN c.regime ELSE "missing")
            factor == IF "volatility" \in DOMAIN c /\ c.volatility = "high" THEN Rat(6, 5)
                      ELSE IF "volatility" \in DOMAIN c /\ c.volatility = "low" THEN Rat(4, 5)
                      ELSE One
        IN  /\ DOMAIN ret = {"strategy_type", "risk_per_trade_multiplier",
                             "stop_loss_multiplier", "take_profit_multiplier"}
            /\ ret.strategy_type = entry[1]
            /\ ret.risk_per_trade_multiplier = entry[2]
            /\ ret.stop_loss_multiplier = RatMul(entry[3], factor)
            /\ ret.take_profit_multiplier = entry[4]

\* An UNCERTAIN regime of high volatility got the default entry with the
\* stop-loss multiplier scaled to 1.2.
C17_Witness ==
    /\ lastOp.name = "suggest_strategy_adjustment"
    /\ lastOp.args[1] = [regime |-> "UNCERTAIN", volatility |-> "high", trend |-> "unknown"]
    /\ ret.strategy_type = "hold"
    /\ ret.risk_per_trade_multiplier = Rat(1, 2)
    /\ ret.stop_loss_multiplier = Rat(6, 5)

TrendingHighVol == [trend |-> "trending", volatility |-> "high", regime |-> "TRENDING_HIGH_VOL"]

\* What the analysis says of a pair (trending, high): the regime is
\* TRENDING_HIGH_VOL.
TrendingHighClassified ==
    (/\ lastOp.name = "analyze_market_conditions"
     /\ "trend" \in DOMAIN ret
     /\ ret.trend = "trending"
     /\ ret.volatility = "high")
    => ret = TrendingHighVol

\* C18 as stated: for {trend: trending, volatility: high} the regime is
\* TRENDING_HIGH_VOL and the advice has stop-loss multiplier 0.96 (0.8 x 1.2)
\* and take_profit_multiplier 2.0.
C18_TrendingHighAdvice ==
    /\ TrendingHighClassified
    /\ (lastOp.name = "suggest_strategy_adjustment" /\ lastOp.args[1] = TrendingHighVol)
          => /\ ret.stop_loss_multiplier = Rat(96, 100)
             /\ ret.take_profit_multiplier = IntRat(2)

\* C18 (amended): for {trend: trending, volatility: high} the regime is
\* TRENDING_HIGH_VOL and the advice has stop-loss multiplier 1.8 (1.5 x 1.2)
\* and take_profit_multiplier 2.0; the 0.8 is the risk_per_trade_multiplier,
\* which the volatility adjustment leaves alone.
C18_TrendingHighAdviceStopLoss ==
    /\ TrendingHighClassified
    /\ (lastOp.name = "suggest_strategy_adjustment" /\ lastOp.args[1] = TrendingHighVol)
          => /\ ret.stop_loss_multiplier = Rat(18, 10)
             /\ ret.take_profit_multiplier = IntRat(2)
             /\ ret.risk_per_trade_multiplier = Rat(8, 10)

\* Advice was asked for the trending, high-volatility conditions.
C18_Witness ==
    /\ lastOp.name = "suggest_strategy_adjustment"
    /\ lastOp.args[1] = TrendingHighVol
    /\ ret.strategy_type = "trend_following"

\* Reference reading of the indicators, on integer sums of the bar values.
RECURSIVE RefSum(_, _, _)
RefSum(series, lo, hi) ==
    IF lo > hi THEN 0
    ELSE IF lo = hi THEN series[lo].num
    ELSE LET mid == (lo + hi) \div 2
         IN  RefSum(series, lo, mid) + RefSum(series, mid + 1, hi)

RefWindowDefined(series, w, i) ==
    i >= w /\ \A k \in i - w + 1 .. i : series[k] # NaN

ShortPeriod  == CombinedStrategy_init.pvg_short_period
LongPeriod   == CombinedStrategy_init.pvg_long_period
Lookback     == CombinedStrategy_init.smc_lookback
VolumePeriod == CombinedStrategy_init.tpr_volume_period

\* The bars that survive: no undefined cell and no undefined indicator.
RetainedBars(data) ==
    {i \in 1 .. data.len :
        /\ \A c \in DOMAIN data.cols : data.cols[c][i] # NaN
        /\ "close" \in DOMAIN data.cols => RefWindowDefined(data.cols["close"], LongPeriod, i)
        /\ "volume" \in DOMAIN data.cols
        /\ RefWindowDefined(data.cols["volume"], VolumePeriod, i)}

LatestRetained(data) ==
    CHOOSE i \in RetainedBars(data) : \A k \in RetainedBars(data) : k <= i

\* short SMA - long SMA at bar i, scaled by ShortPeriod * LongPeriod.
SmaGap(data, i) ==
    LongPeriod * RefSum(data.cols["close"], i - ShortPeriod + 1, i)
    - ShortPeriod * RefSum(data.cols["close"], i - LongPeriod + 1, i)

\* close - long SMA at bar i, scaled by LongPeriod.
CloseGap(data, i) ==
    LongPeriod * data.cols["close"][i].num - RefSum(data.cols["close"], i - LongPeriod + 1, i)

VolumeSmaPositive(data, i) == RefSum(data.cols["volume"], i - VolumePeriod + 1, i) > 0

IsSwingLow(data, i) ==
    /\ {"high", "low"} \subseteq DOMAIN data.cols
    /\ RefWindowDefined(data.cols["low"], Lookback, i)
    /\ \A k \in i - Lookback + 1 .. i : data.cols["low"][i].num <= data.cols["low"][k].num

IsSwingHigh(data, i) ==
    /\ {"high", "low"} \subseteq DOMAIN data.cols
    /\ RefWindowDefined(data.cols["high"], Lookback, i)
    /\ \A k \in i - Lookback + 1 .. i : data.cols["high"][i].num >= data.cols["high"][k].num

BuyGate(data, i) ==
    /\ "close" \in DOMAIN data.cols
    /\ SmaGap(data, i) > 0
    /\ IsSwingLow(data, i)
    /\ CloseGap(data, i) > 0
    /\ VolumeSmaPositive(data, i)

SellGate(data, i) ==
    /\ "close" \in DOMAIN data.cols
    /\ SmaGap(data, i) < 0
    /\ IsSwingHigh(data, i)
    /\ CloseGap(data, i) < 0
    /\ VolumeSmaPositive(data, i)

C20_UnderDeterminedHolds ==
    lastOp.name = "generate_signal" =>
        LET data == lastOp.args[1]
        IN  (\/ data.len = 0
             \/ RetainedBars(data) = {}
             \/ "close" \notin DOMAIN data.cols
             \/ ~({"high", "low"} \subseteq DOMAIN data.cols)
             \/ SmaGap(data, LatestRetained(data)) = 0)
            => ret = "HOLD"

\* HOLD on a tie of the two SMAs alone: the bar is a swing low, closes above
\* the long SMA and has volume.
C20_Witness ==
    /\ lastOp.name = "generate_signal"
    /\ ret = "HOLD"
    /\ RetainedBars(lastOp.args[1]) # {}
    /\ "close" \in DOMAIN lastOp.args[1].cols
    /\ LET data == lastOp.args[1]
           i    == LatestRetained(data)
       IN  /\ SmaGap(data, i) = 0
           /\ IsSwingLow(data, i)
           /\ CloseGap(data, i) > 0
           /\ VolumeSmaPositive(data, i)

\* C21: generate_signal never mutates the caller's bar data: after the call
\* the caller's series has the same rows, columns and values as before.
C21_CallerDataUntouched ==
    [][lastOp'.name = "generate_signal" => frames' = frames]_vars

\* A call returned on a series of which the analyses dropped rows and to
\* which they added columns, and the caller still holds the series it passed.
C21_Witness ==
    /\ lastOp.name = "generate_signal"
    /\ frames["data"] = lastOp.args[1]
    /\ RetainedBars(lastOp.args[1]) # {}
    /\ Cardinality(RetainedBars(lastOp.args[1])) < lastOp.args[1].len
    /\ DOMAIN frames["data"].cols = PriceColumns

\* The loop has been ended by a gate that returned False or by the stop
\* button, and is on its way out.
LoopLeaving ==
    /\ agent_status = "Stopped"
    /\ pc \in {"exit_logic", "cycle_end", "terminate", "done"}

\* The step is a symbol's pass in which the gate was asked and returned False.
GateClosedStep ==
    /\ lastOp'.name = "process_symbol"
    /\ ret'.signal \in {"BUY", "SELL"}
    /\ ~check_daily_risk_limit(rm)

\* C22: the loop records a position for a symbol only if the signal is BUY
\* or SELL and check_daily_risk_limit() returned True in that symbol's step;
\* when the gate returns False no position is recorded for that symbol or
\* any later one, agent_status becomes 'Stopped', and the loop goes to its
\* end without another symbol or another pass.
C22_SizingBehindDailyGate ==
    [][/\ Len(positions') > Len(positions) =>
            /\ lastOp'.name = "process_symbol"
            /\ ret'.signal \in {"BUY", "SELL"}
            /\ check_daily_risk_limit(rm)
       /\ GateClosedStep =>
            /\ positions' = positions
            /\ agent_status' = "Stopped"
            /\ pc' = "exit_logic"
       /\ LoopLeaving =>
            /\ agent_status' = "Stopped"
            /\ lastOp'.name \in {"exit_logic", "cycle_end", "terminate"}
            /\ pc' \in {"cycle_end", "terminate", "done"}
            /\ Len(positions') <= Len(positions)
            /\ cycle' = cycle
            /\ symbol_index' = symbol_index]_vars

\* The gate returned False on the first of the two symbols of the second
\* pass; the loop has ended there, the agent not stopped by its button.
C22_Witness ==
    /\ pc = "done"
    /\ agent = [kind |-> "TradingAgent"]
    /\ agent_status = "Stopped"
    /\ ~check_daily_risk_limit(rm)
    /\ cycle = 2
    /\ symbol_index = 1
    /\ Len(config.symbols) = 2

\* The step is a symbol's pass whose fetch raised or returned no bars, or
\* whose signal is HOLD.
UnprocessableStep ==
    /\ lastOp'.name = "process_symbol"
    /\ \/ lastOp'.args[2] = Raise("Exception")
       \/ Empty(lastOp'.args[2])
       \/ ret'.signal = "HOLD"

\* C23: a symbol whose fetch returns an empty series or raises, or whose
\* signal is HOLD, records no position and leaves agent_status alone, and the
\* loop goes on to the next symbol and, while the status is Running, from
\* the end of a pass through the wait to the first symbol of the next pass;
\* inside the loop the status becomes 'Stopped' only on a daily-limit breach.
C23_UnprocessableSymbolSkipped ==
    [][/\ UnprocessableStep =>
            /\ positions' = positions
            /\ agent_status' = agent_status
            /\ IF symbol_index < Len(config.symbols)
               THEN pc' = "for" /\ symbol_index' = symbol_index + 1 /\ cycle' = cycle
               ELSE pc' = "exit_logic"
       /\ (agent_status' = "Running" /\ pc' # pc /\ pc = "exit_logic") => pc' = "cycle_end"
       /\ (agent_status' = "Running" /\ pc' # pc /\ pc = "cycle_end") => pc' = "sleep"
       /\ (agent_status' = "Running" /\ pc' # pc /\ pc = "sleep") => pc' = "while"
       /\ (agent_status' = "Running" /\ pc' # pc /\ pc = "while") =>
            pc' = "for" /\ cycle' = cycle + 1 /\ symbol_index' = 1
       /\ (agent_status = "Running" /\ agent_status' = "Stopped"
             /\ lastOp'.name # "stop_agent") => GateClosedStep]_vars

\* In the second pass, after a first pass without any position, the fetch of
\* the first symbol raised and the loop stands at the second symbol, Running.
C23_Witness ==
    /\ lastOp.name = "process_symbol"
    /\ lastOp.args[2] = Raise("Exception")
    /\ ret.outcome = "fetch_failed"
    /\ cycle = 2
    /\ pc = "for"
    /\ symbol_index = 2
    /\ agent_status = "Running"
    /\ positions = <<>>

\* C24: once stop_agent has set agent_status to 'Stopped' while a pass is in
\* progress, the loop processes no further symbol of that pass and records
\* no further position.
C24_StopBetweenSymbols ==
    [][(agent_status = "Stopped" /\ agent = None /\ pc = "for") =>
            /\ lastOp'.name # "process_symbol"
            /\ Len(positions') <= Len(positions)]_vars

\* C29: every position the loop recorded under a risk/reward ratio > 0 has
\* Quantity > 0, Side BUY or SELL, and stop and target on the right sides of
\* the entry: Stop Loss < Entry Price < Take Profit for BUY, Take Profit <
\* Entry Price < Stop Loss for SELL.
C29_RecordedPositionsWellFormed ==
    (config # None /\ RatLT(Zero, config.risk_reward_ratio)) =>
        \A i \in 1 .. Len(positions) :
            LET position == positions[i]
            IN  /\ IsPositive(position.Quantity)
                /\ position.Side \in {"BUY", "SELL"}
                /\ position.Take_Profit # NaN
                /\ position.Side = "BUY" =>
                      /\ RatLT(position.Stop_Loss, position.Entry_Price)
                      /\ RatLT(position.Entry_Price, position.Take_Profit)
                /\ position.Side = "SELL" =>
                      /\ RatLT(position.Take_Profit, position.Entry_Price)
                      /\ RatLT(position.Entry_Price, position.Stop_Loss)

\* A BUY and a SELL are recorded, the SELL with its target at the floor of
\* determine_take_profit.
C29_Witness ==
    /\ \E i \in 1 .. Len(positions) : positions[i].Side = "BUY"
    /\ \E i \in 1 .. Len(positions) :
          /\ positions[i].Side = "SELL"
          /\ positions[i].Take_Profit =
                RatMul(positions[i].Entry_Price, TakeProfitFallbackFactor)

\* C25: after any run of add_log calls the log holds at most 100 lines; a
\* call puts its line first, the lines that were there follow in the order
\* they had, and once there would be more than 100 it is the oldest line,
\* and only that one, that is gone.
C25_LogBoundedNewestFirst ==
    /\ [](Len(logs) <= 100)
    /\ [][lastOp'.name = "add_log" =>
            /\ logs'[1] = [timestamp |-> now, message |-> lastOp'.args[1]]
            /\ Len(logs') = IF Len(logs) < 100 THEN Len(logs) + 1 ELSE 100
            /\ \A i \in 2 .. Len(logs') : logs'[i] = logs[i - 1]]_vars

\* The log is full and lines have been discarded: its oldest line is not the
\* first one written, its newest is the one of the last call.
C25_Witness ==
    /\ lastOp.name = "add_log"
    /\ Len(logs) = 100
    /\ logs[100].timestamp > 0
    /\ logs[1].timestamp = now - 1
    /\ \A i \in 1 .. 99 : logs[i].timestamp > logs[i + 1].timestamp

\* C26: in every state of a RiskManager, account_balance +
\* daily_loss_incurred = initial_balance; the balance starts at the balance
\* given to the constructor, drops by each accepted loss and is left alone
\* by every other step, so no step increases it.
C26_BalanceConserved ==
    /\ [](IsInstance(rm) =>
            RatAdd(rm.account_balance, rm.daily_loss_incurred) = rm.initial_balance)
    /\ [][IF ~IsInstance(rm')
          THEN TRUE
          ELSE IF ~IsInstance(rm)
          THEN rm'.account_balance = lastOp'.args[1]
          ELSE IF lastOp'.name = "update_daily_loss" /\ RatLT(Zero, lastOp'.args[1])
          THEN rm'.account_balance = RatSub(rm.account_balance, lastOp'.args[1])
          ELSE rm'.account_balance = rm.account_balance]_vars

\* A loss has been accepted on a day that began with a balance below every
\* balance given to a constructor: losses, a reset, and a loss again.
C26_Witness ==
    /\ lastOp.name = "update_daily_loss"
    /\ RatLT(Zero, lastOp.args[1])
    /\ RatLT(rm.account_balance, rm.initial_balance)
    /\ RatLT(rm.initial_balance, One)

\* C27: once check_daily_risk_limit() is False it stays False over every
\* step other than reset_daily_loss, so every later call returns False
\* whatever losses are passed and sizes are asked for in between.
C27_GateLatches ==
    [][(/\ IsInstance(rm)
        /\ ~check_daily_risk_limit(rm)
        /\ lastOp'.name # "reset_daily_loss")
       => /\ ~check_daily_risk_limit(rm')
          /\ lastOp'.name = "check_daily_risk_limit" => ret' = FALSE]_vars

\* The gate is asked, and answers False, with the day's loss beyond the
\* limit of a positive reference balance.
C27_Witness ==
    /\ lastOp.name = "check_daily_risk_limit"
    /\ ret = FALSE
    /\ RatLT(DailyLimit(rm), rm.daily_loss_incurred)
    /\ RatLT(Zero, rm.initial_balance)

\* C28: in every state reached by update_daily_loss and reset_daily_loss
\* calls account_balance > 0 and initial_balance > 0, and
\* check_daily_risk_limit() is True right after reset_daily_loss().
C28_BalancePositive ==
    /\ [](IsInstance(rm) =>
            /\ RatLT(Zero, rm.account_balance)
            /\ RatLT(Zero, rm.initial_balance))
    /\ [][(IsInstance(rm) /\ lastOp'.name = "reset_daily_loss")
            => check_daily_risk_limit(rm')]_vars

ReadOnlyMethods ==
    {"calculate_position_size", "determine_stop_loss", "determine_take_profit",
     "update_trailing_stop", "check_daily_risk_limit"}

\* C30: calculate_position_size, determine_stop_loss, determine_take_profit,
\* update_trailing_stop and check_daily_risk_limit leave all five fields of
\* the RiskManager as they were, for every input; the instance changes only
\* in update_daily_loss and reset_daily_loss steps; and the two risk
\* percentages are the same after every step.
C30_OnlyLossAndResetMutate ==
    [][IsInstance(rm) =>
        /\ lastOp'.name \in ReadOnlyMethods => rm' = rm
        /\ rm' # rm => lastOp'.name \in {"update_daily_loss", "reset_daily_loss"}
        /\ rm'.risk_per_trade_percentage = rm.risk_per_trade_percentage
        /\ rm'.daily_risk_limit_percentage = rm.daily_risk_limit_percentage]_vars

\* determine_stop_loss has failed soft on an instance that carries a loss
\* and whose reference balance a reset has moved.
C30_Witness ==
    /\ lastOp.name = "determine_stop_loss"
    /\ ret = NaN
    /\ RatLT(Zero, rm.daily_loss_incurred)
    /\ RatLT(rm.initial_balance, IntRat(MaxBalance))
    /\ rm.risk_per_trade_percentage = Rat(1, PctDen)
    /\ rm.daily_risk_limit_percentage = Rat(1, PctDen)

====
